---- MODULE Spec2Model ----
(***************************************************************************)
(* The session coordinator of backend/main.py: the REST handler            *)
(* handle_chat, the five worker-response handlers that write the sessions  *)
(* dict, and the worker agents they talk to.                               *)
(*                                                                         *)
(* Strings that the code takes apart (session ids, composite ids) are      *)
(* sequences of one-character strings.  Message contents the coordinator   *)
(* only copies (texts, coordinates, POI lists) are tags that name the      *)
(* request they were produced for; 0 stands for None / empty.              *)
(***************************************************************************)
EXTENDS Integers, Sequences, FiniteSets, TLC

VARIABLES
    sessions,        \* main.py:65   sessions = {}  (session id -> dict)
    chat,            \* one handle_chat call per chat id: position, locals, response
    scopingReqs,     \* ScopingRequest messages in flight to the scoping agent
    scopingReplies,  \* ScopingResponse messages in flight to the coordinator
    generalReqs,     \* GeneralRequest in flight
    generalReplies,  \* GeneralResponse in flight
    researchReqs,    \* ResearchRequest in flight
    researchReplies, \* ResearchResponse in flight
    mapboxReqs,      \* MapboxRequest in flight
    mapboxReplies,   \* MapboxResponse in flight
    poiReqs,         \* LocalDiscoveryRequest in flight
    poiReplies,      \* LocalDiscoveryResponse in flight
    sent,            \* history: every request message the coordinator has sent
    tokIn,           \* token round trip: the session id given to encode
    idxIn,           \* token round trip: the index given to encode
    tokOut,          \* token round trip: what handle_mapbox's decoding yields
    prober_responses, \* negotiation_workflow.py:70  prober_responses = {}
    negotiate,       \* one negotiate_property call per id: position, locals, outcome
    proberReqs,      \* ProberRequest in flight
    proberReplies,   \* ProberResponse in flight
    vapi_client,     \* vapi_agent.py:153-157: FALSE is vapi_client = None
    vapiReqs,        \* VapiRequest in flight
    vapiReplies,     \* history: every VapiResponse the Vapi agent sent, in order
    vapiCalls        \* history: every Vapi API call made, in order

vars == << sessions, chat, scopingReqs, scopingReplies, generalReqs,
           generalReplies, researchReqs, researchReplies, mapboxReqs,
           mapboxReplies, poiReqs, poiReplies, sent,
           tokIn, idxIn, tokOut,
           prober_responses, negotiate, proberReqs, proberReplies,
           vapi_client, vapiReqs, vapiReplies, vapiCalls >>

netVars == << scopingReqs, scopingReplies, generalReqs, generalReplies,
              researchReqs, researchReplies, mapboxReqs, mapboxReplies,
              poiReqs, poiReplies >>

tokVars == << tokIn, idxIn, tokOut >>

negVars == << prober_responses, negotiate, proberReqs, proberReplies >>

vapiVars == << vapi_client, vapiReqs, vapiReplies, vapiCalls >>

\* sessions and handle_chat calls of main.py
coordVars == << sessions, chat, netVars, sent >>

(***************************************************************************)
(* Bounds of the model.                                                    *)
(***************************************************************************)
\* handle_chat calls (HTTP requests) over the whole run
MaxChats == 2
\* longest raw_search_results list a research reply carries, besides the one
\* list that is longer than the batch
MaxCand == 2
\* requests the Mapbox agent answers over the whole run (the rest never reply)
MaxGeoReplies == 2
\* requests the local-discovery agent answers over the whole run
MaxPoiReplies == 2
\* longest session id of the token round trip
MaxTokLen == 3

\* The poll budgets of handle_chat, main.py:250, 266, 287, 301, 312:
\* range(60), range(60), range(60), range(30), range(40) polls of 0.5 s.
\* The coordinator only tells "seen before the budget ran out" from "the
\* budget ran out", so each budget is a bound of the model, scaled down.
ScopingPolls == 2
GeneralPolls == 2
ResearchPolls == 2
GeocodingPolls == 2
PoiPolls == 2

(***************************************************************************)
(* Program constants.                                                      *)
(***************************************************************************)
\* main.py:126, main.py:297, main.py:329: raw_search_results[:5]
BatchSize == 5

(***************************************************************************)
(* Python dicts: functions whose domain is the set of keys present.        *)
(***************************************************************************)
EmptyDict == [k \in {} |-> 0]

Has(d, k) == k \in DOMAIN d

Put(d, k, v) == [x \in (DOMAIN d) \cup {k} |-> IF x = k THEN v ELSE d[x]]

Pop(d, k) == [x \in (DOMAIN d) \ {k} |-> d[x]]

Get(d, k, default) == IF k \in DOMAIN d THEN d[k] ELSE default

Min(a, b) == IF a <= b THEN a ELSE b

(***************************************************************************)
(* Composite ids: f"{session_id}__{idx}" and its decoding in handle_mapbox *)
(***************************************************************************)
Digits == <<"0", "1", "2", "3", "4", "5", "6", "7", "8", "9">>

DigitChars == {Digits[k] : k \in 1..10}

DigitVal(ch) == (CHOOSE k \in 1..10 : Digits[k] = ch) - 1

RECURSIVE IntToStr(_)
\* str(idx) of a natural number
IntToStr(n) ==
    IF n < 10 THEN << Digits[n + 1] >>
    ELSE IntToStr(n \div 10) \o << Digits[(n % 10) + 1] >>

Separator == << "_", "_" >>

\* main.py:138  f"{msg.session_id}__{idx}"
Encode(sid, idx) == sid \o Separator \o IntToStr(idx)

\* positions where "__" starts in s
SepPositions(s) ==
    { p \in 1..(Len(s) - 1) : s[p] = "_" /\ s[p + 1] = "_" }

\* main.py:149  "__" in msg.session_id
HasSeparator(s) == SepPositions(s) # {}

FirstSep(s) == CHOOSE p \in SepPositions(s) : \A q \in SepPositions(s) : p <= q

\* main.py:151  msg.session_id.split("__", 1): cut at the first "__"
SplitFirst(s) ==
    LET p == FirstSep(s)
    IN  [ base |-> SubSeq(s, 1, p - 1), rest |-> SubSeq(s, p + 2, Len(s)) ]

\* Python int(str) on the characters of the model: digits, with single
\* underscores allowed only between digits; anything else is a ValueError
IntParses(s) ==
    /\ Len(s) >= 1
    /\ \A p \in 1..Len(s) : s[p] \in DigitChars \cup {"_"}
    /\ s[1] \in DigitChars
    /\ s[Len(s)] \in DigitChars
    /\ \A p \in 1..(Len(s) - 1) : ~(s[p] = "_" /\ s[p + 1] = "_")

RECURSIVE IntOfStr(_)
IntOfStr(s) ==
    IF Len(s) = 0 THEN 0
    ELSE IF s[Len(s)] = "_" THEN IntOfStr(SubSeq(s, 1, Len(s) - 1))
    ELSE 10 * IntOfStr(SubSeq(s, 1, Len(s) - 1)) + DigitVal(s[Len(s)])

\* the decoding that takes an index it cannot read for 0 instead of raising
DecodeToken_IgnoresBadIndex(s) ==
    IF ~HasSeparator(s)
    THEN [ raised |-> FALSE, composite |-> FALSE, base |-> s, idx |-> 0 ]
    ELSE LET parts == SplitFirst(s)
         IN  [ raised |-> FALSE, composite |-> TRUE, base |-> parts.base,
               idx |-> IF IntParses(parts.rest) THEN IntOfStr(parts.rest) ELSE 0 ]

\* main.py:149-152: what handle_mapbox makes of a session_id
\*   raised    : int(idx_str) raised ValueError
\*   composite : the id held "__"
DecodeToken(s) ==
    IF ~HasSeparator(s)
    THEN [ raised |-> FALSE, composite |-> FALSE, base |-> s, idx |-> 0 ]
    ELSE LET parts == SplitFirst(s)
         IN  IF IntParses(parts.rest)
             THEN [ raised |-> FALSE, composite |-> TRUE,
                    base |-> parts.base, idx |-> IntOfStr(parts.rest) ]
             ELSE [ raised |-> TRUE, composite |-> TRUE,
                    base |-> parts.base, idx |-> 0 ]

\* the round trip has not run
NotDecoded == [ raised |-> FALSE, composite |-> FALSE, base |-> << >>, idx |-> -1 ]

\* the characters session ids are made of in the round trip
TokenChars == { "a", "_", "1" }

RECURSIVE StringsOfLen(_)
StringsOfLen(n) ==
    IF n = 0 THEN { << >> }
    ELSE { Append(t, ch) : t \in StringsOfLen(n - 1), ch \in TokenChars }

\* the session ids of the round trip: non-empty, without the separator
ValidTokens ==
    { t \in UNION { StringsOfLen(n) : n \in 1..MaxTokLen } : ~HasSeparator(t) }

(***************************************************************************)
(* Messages.  rid names the handle_chat call whose user message the        *)
(* content derives from (the message text itself, the classifier's         *)
(* wording, the requirements, the listing titles ...).                     *)
(***************************************************************************)
\* the session ids in use: one is the other with an underscore appended, so
\* that the composite ids of the two differ by where "__" first occurs
Sessions == { <<"a">>, <<"a", "_">> }

ChatIds == 1..MaxChats

NoTag == [ rid |-> 0, k |-> 0 ]

Tag(r, k) == [ rid |-> r, k |-> k ]

\* what the LLM of the scoping agent may answer (scoping_agent.py:143-150):
\* requirements are only built when is_complete holds
Classes ==
    { cl \in [ is_general_question : BOOLEAN, has_question : BOOLEAN,
               is_complete : BOOLEAN, has_requirements : BOOLEAN ] :
        /\ cl.has_requirements => cl.is_complete
        /\ cl.has_question => cl.is_general_question }

\* models.py:46-53 ScopingResponse; 0 is None
ScopingResponse(sid, r, cl) ==
    [ session_id |-> sid,
      agent_message |-> r,
      is_complete |-> cl.is_complete,
      requirements |-> IF cl.has_requirements THEN r ELSE 0,
      is_general_question |-> cl.is_general_question,
      general_question |-> IF cl.has_question THEN r ELSE 0 ]

NoScoping ==
    [ session_id |-> << >>, agent_message |-> 0, is_complete |-> FALSE,
      requirements |-> 0, is_general_question |-> FALSE,
      general_question |-> 0 ]

\* one raw search result (a dict): its title ("" is NoTag) and the rest of it
Candidate(r, k, titled) ==
    [ title |-> IF titled THEN Tag(r, k) ELSE NoTag, link |-> Tag(r, k) ]

\* a raw_search_results list of n results, all titled or with the first
\* title empty
CandList(r, n, untitledFirst) ==
    [ k \in 1..n |-> Candidate(r, k - 1, ~(untitledFirst /\ k = 1)) ]

\* models.py:63-71 ResearchResponse; raw_is_none: raw_search_results = None;
\* result_images is left at its default None, read as [] (main.py:324)
ResearchResponse(sid, r, isNone, cands) ==
    [ session_id |-> sid,
      search_summary |-> r,
      total_found |-> Len(cands) + r,
      raw_is_none |-> isNone,
      raw_search_results |-> cands,
      result_images |-> << >> ]

\* models.py:71: one entry of result_images
ResultImage(r, idx, k) == [ index |-> idx, image_url |-> Tag(r, k) ]

\* a ResearchResponse that carries result_images
ResearchResponseWithImages(sid, r, cands, images) ==
    [ ResearchResponse(sid, r, FALSE, cands) EXCEPT !.result_images = images ]

NoResearch ==
    [ session_id |-> << >>, search_summary |-> 0, total_found |-> 0,
      raw_is_none |-> TRUE, raw_search_results |-> << >>,
      result_images |-> << >> ]

(***************************************************************************)
(* handle_chat: the state of one call.                                     *)
(***************************************************************************)
NoResp == [ status |-> "none", data |-> EmptyDict ]

IdleChat ==
    [ pc |-> "idle", i |-> 0, session_id |-> << >>,
      scoping_msg |-> NoScoping, research_msg |-> NoResearch,
      geocoded_results |-> << >>, poi_results |-> << >>,
      resp |-> NoResp, path |-> {} ]

\* main.py:255-258, 387-390, 406-409
ErrorResponse(text) == [ status |-> "error", data |-> [ message |-> text ] ]

Return(loc, resp) == [ loc EXCEPT !.pc = "done", !.resp = resp ]

\* a sleep that does not use up an iteration of the poll loop
Sleep_NoCount(loc) == loc

\* await asyncio.sleep(0.5) at the end of an iteration of a for-range loop
Sleep(loc) == [ loc EXCEPT !.i = @ + 1 ]

Note(loc, what) == [ loc EXCEPT !.path = @ \cup {what} ]

\* next(x for x in lst if x[key] == idx, None): the first match
Matches(lst, key, idx) == { p \in 1..Len(lst) : lst[p][key] = idx }

FirstMatch(lst, key, idx) ==
    lst[CHOOSE p \in Matches(lst, key, idx) :
            \A q \in Matches(lst, key, idx) : p <= q]

\* main.py:330-337, 345-352: one result with its coordinate and POIs
EnhancedResult(result, idx, geocoded_results, poi_results) ==
    LET withGeo ==
            IF Matches(geocoded_results, "index", idx) # {}
            THEN LET g == FirstMatch(geocoded_results, "index", idx)
                 IN  Put(Put(Put(result, "latitude", g.latitude),
                             "longitude", g.longitude), "address", g.address)
            ELSE result
    IN  IF Matches(poi_results, "listing_index", idx) # {}
        THEN Put(withGeo, "pois",
                 FirstMatch(poi_results, "listing_index", idx).pois)
        ELSE Put(withGeo, "pois", << >>)

\* main.py:339-343: the image of the result, if result_images has one
WithImage(enhanced_result, idx, result_images) ==
    IF Matches(result_images, "index", idx) # {}
    THEN Put(enhanced_result, "image_url",
             FirstMatch(result_images, "index", idx).image_url)
    ELSE enhanced_result

\* the pointer built from the first result that has a coordinate
TopResultCoords_FirstWithCoordinate(enhanced_results) ==
    LET with == { p \in 1..Len(enhanced_results) :
                    Has(enhanced_results[p], "latitude") }
    IN  IF with # {}
        THEN LET p == CHOOSE q \in with : \A x \in with : q <= x
             IN  << [ latitude |-> enhanced_results[p].latitude,
                      longitude |-> enhanced_results[p].longitude,
                      address |-> Get(enhanced_results[p], "address",
                                      Get(enhanced_results[p], "title", NoTag)),
                      image_url |-> Get(enhanced_results[p], "image_url", NoTag) ] >>
        ELSE << >>

\* main.py:362-370: top_result_coords; << >> is None, image_url NoTag is None
TopResultCoords(enhanced_results) ==
    IF Len(enhanced_results) > 0 /\ Has(enhanced_results[1], "latitude")
    THEN << [ latitude |-> enhanced_results[1].latitude,
              longitude |-> enhanced_results[1].longitude,
              address |-> Get(enhanced_results[1], "address",
                              Get(enhanced_results[1], "title", NoTag)),
              image_url |-> Get(enhanced_results[1], "image_url", NoTag) ] >>
    ELSE << >>

\* main.py:321-382: merge and the success response of a property search;
\* raw_search_results[:5] on None raises TypeError, caught at main.py:402.
\* The call keeps the lists it read (main.py:323, 325) in its locals
MergeResponse(S, loc) ==
    LET research_msg == loc.research_msg
        geocoded_results == Get(S, "geocoded_results", << >>)
        poi_results == Get(S, "poi_results", << >>)
        firstFive == SubSeq(research_msg.raw_search_results, 1,
                            Min(Len(research_msg.raw_search_results), BatchSize))
        result_images == research_msg.result_images
        enhanced_results ==
            [ p \in 1..Len(firstFive) |->
                WithImage(EnhancedResult(firstFive[p], p - 1,
                                         geocoded_results, poi_results),
                          p - 1, result_images) ]
        top_result_coords == TopResultCoords(enhanced_results)
        merging == [ loc EXCEPT !.geocoded_results = geocoded_results,
                                !.poi_results = poi_results ]
    IN  IF research_msg.raw_is_none
        THEN Return(Note(merging, "exception"), ErrorResponse("exception"))
        ELSE Return(merging,
               [ status |-> "success",
                 data |-> [ requirements |-> loc.scoping_msg.requirements,
                            properties |-> << >>,
                            search_summary |-> [ from |-> "research",
                                                 text |-> research_msg.search_summary ],
                            total_found |-> research_msg.total_found,
                            top_result_coordinates |-> top_result_coords,
                            raw_search_results |-> enhanced_results ] ])

\* main.py:297
ResultsCount(research_msg) == Min(Len(research_msg.raw_search_results), BatchSize)

\* main.py:310-319: the POI wait, then the merge
RunPoi(S, loc) ==
    IF loc.i < PoiPolls
    THEN IF Get(S, "poi_count", 0) >= ResultsCount(loc.research_msg)
         THEN MergeResponse(S, loc)
         ELSE Sleep(loc)
    ELSE MergeResponse(S, Note(loc, "poi_timeout"))

\* main.py:295-308: the geocoding wait
RunGeocoding(S, loc) ==
    IF loc.research_msg.raw_is_none \/ Len(loc.research_msg.raw_search_results) = 0
    THEN MergeResponse(S, loc)
    ELSE IF loc.i < GeocodingPolls
         THEN IF Get(S, "geocoding_count", 0) >= ResultsCount(loc.research_msg)
              THEN RunPoi(S, [ loc EXCEPT !.pc = "poi", !.i = 0 ])
              ELSE Sleep(loc)
         ELSE RunPoi(S, [ Note(loc, "geocoding_timeout") EXCEPT !.pc = "poi", !.i = 0 ])

\* the scoping conversation returned one poll later
ScopingConversation_WaitsOnce(loc) ==
    IF loc.i < 1
    THEN Sleep(loc)
    ELSE Return(loc,
           [ status |-> "success",
             data |-> [ requirements |-> loc.scoping_msg.requirements,
                        properties |-> << >>,
                        search_summary |-> [ from |-> "scoping",
                                             text |-> loc.scoping_msg.agent_message ],
                        total_found |-> 0 ] ])

\* main.py:392-400: the scoping conversation
ScopingConversation(loc) ==
    Return(loc,
      [ status |-> "success",
        data |-> [ requirements |-> loc.scoping_msg.requirements,
                   properties |-> << >>,
                   search_summary |-> [ from |-> "scoping",
                                        text |-> loc.scoping_msg.agent_message ],
                   total_found |-> 0 ] ])

\* the research wait where running out of polls falls through to the scoping
\* conversation
RunResearch_TimeoutConversation(S, loc) ==
    IF ~(loc.scoping_msg.is_complete /\ loc.scoping_msg.requirements # 0)
    THEN ScopingConversation(loc)
    ELSE LET found == [ loc EXCEPT !.research_msg = S["research"],
                                   !.pc = "geocoding", !.i = 0 ]
         IN  IF loc.i < ResearchPolls
             THEN IF Has(S, "research") THEN RunGeocoding(S, found) ELSE Sleep(loc)
             ELSE IF Has(S, "research")
                  THEN RunGeocoding(S, found)
                  ELSE ScopingConversation(Note(loc, "research_timeout"))

\* main.py:283-292 and 384-390: the research wait
RunResearch(S, loc) ==
    IF ~(loc.scoping_msg.is_complete /\ loc.scoping_msg.requirements # 0)
    THEN ScopingConversation(loc)
    ELSE LET found == [ loc EXCEPT !.research_msg = S["research"],
                                   !.pc = "geocoding", !.i = 0 ]
         IN  IF loc.i < ResearchPolls
             THEN IF Has(S, "research") THEN RunGeocoding(S, found) ELSE Sleep(loc)
             ELSE IF Has(S, "research")
                  THEN RunGeocoding(S, found)
                  ELSE Return(Note(loc, "research_timeout"),
                              ErrorResponse("Research agent did not respond in time"))

\* main.py:273-281
GeneralAnswer(S, loc) ==
    Return(loc,
      [ status |-> "success",
        data |-> [ requirements |-> 0,
                   properties |-> << >>,
                   search_summary |-> [ from |-> "general",
                                        text |-> S["general"].answer ],
                   total_found |-> 0 ] ])

\* the general-question wait where running out of polls is reported as an
\* error
RunGeneral_TimeoutIsError(S, loc) ==
    LET onward == [ loc EXCEPT !.pc = "research", !.i = 0 ]
    IN  IF ~loc.scoping_msg.is_general_question
        THEN RunResearch(S, onward)
        ELSE IF loc.i < GeneralPolls
             THEN IF Has(S, "general") THEN GeneralAnswer(S, loc) ELSE Sleep(loc)
             ELSE Return(Note(loc, "general_timeout"),
                         ErrorResponse("General agent did not respond in time"))

\* the general wait that, run out, returns a general answer with no text
RunGeneral_TimeoutBlankAnswer(S, loc) ==
    LET onward == [ loc EXCEPT !.pc = "research", !.i = 0 ]
    IN  IF ~loc.scoping_msg.is_general_question
        THEN RunResearch(S, onward)
        ELSE IF loc.i < GeneralPolls
             THEN IF Has(S, "general") THEN GeneralAnswer(S, loc) ELSE Sleep(loc)
             ELSE IF Has(S, "general")
                  THEN GeneralAnswer(S, loc)
                  ELSE Return(Note(loc, "general_timeout"),
                         [ status |-> "success",
                           data |-> [ requirements |-> 0,
                                      properties |-> << >>,
                                      search_summary |-> [ from |-> "general",
                                                           text |-> 0 ],
                                      total_found |-> 0 ] ])

\* main.py:262-281: the general-question wait
RunGeneral(S, loc) ==
    LET onward == [ loc EXCEPT !.pc = "research", !.i = 0 ]
    IN  IF ~loc.scoping_msg.is_general_question
        THEN RunResearch(S, onward)
        ELSE IF loc.i < GeneralPolls
             THEN IF Has(S, "general") THEN GeneralAnswer(S, loc) ELSE Sleep(loc)
             ELSE IF Has(S, "general")
                  THEN GeneralAnswer(S, loc)
                  ELSE RunResearch(S, Note(onward, "general_timeout"))

\* the scoping wait where running out of polls degrades to the scoping
\* conversation instead of an error
RunScoping_TimeoutSucceeds(S, loc) ==
    IF loc.i < ScopingPolls
    THEN IF Has(S, "scoping")
         THEN RunGeneral(S, [ loc EXCEPT !.scoping_msg = S["scoping"],
                                         !.pc = "general", !.i = 0 ])
         ELSE Sleep(loc)
    ELSE ScopingConversation(Note(loc, "scoping_timeout"))

\* main.py:249-260: the scoping wait
RunScoping(S, loc) ==
    IF loc.i < ScopingPolls
    THEN IF Has(S, "scoping")
         THEN RunGeneral(S, [ loc EXCEPT !.scoping_msg = S["scoping"],
                                         !.pc = "general", !.i = 0 ])
         ELSE Sleep(loc)
    ELSE Return(Note(loc, "scoping_timeout"),
                ErrorResponse("Timeout waiting for scoping agent"))

\* handle_chat from one await to the next
Resume(S, loc) ==
    CASE loc.pc = "scoping"   -> RunScoping(S, loc)
      [] loc.pc = "general"   -> RunGeneral(S, loc)
      [] loc.pc = "research"  -> RunResearch(S, loc)
      [] loc.pc = "geocoding" -> RunGeocoding(S, loc)
      [] loc.pc = "poi"       -> RunPoi(S, loc)

(***************************************************************************)
(* The coordinator's sends and the histories.                              *)
(***************************************************************************)
\* one entry of the history of requests sent: the worker, the session_id
\* the request carries, and the content tag
Sent(to, sid, tag) == [ to |-> to, session_id |-> sid, tag |-> tag ]

\* sessions[sid] after "if sid not in sessions: sessions[sid] = {}"
SessionOf(sid) == IF sid \in DOMAIN sessions THEN sessions[sid] ELSE EmptyDict

\* the write that needs the session's record to exist already
SetSession_ExistingOnly(sid, S) ==
    IF sid \in DOMAIN sessions
    THEN [ x \in DOMAIN sessions |-> IF x = sid THEN S ELSE sessions[x] ]
    ELSE sessions

\* sessions after sessions[sid] is created if absent and then written
SetSession(sid, S) ==
    [ x \in (DOMAIN sessions) \cup {sid} |-> IF x = sid THEN S ELSE sessions[x] ]

\* number of requests to a worker that were answered so far
Answered(to, inFlight) ==
    Cardinality({ x \in sent : x.to = to }) - Cardinality(inFlight)

(***************************************************************************)
(* handle_chat (main.py:225-409)                                           *)
(***************************************************************************)
\* the call that clears the session's record before it starts
ChatStart_ClearsRecord(c, sid) ==
    /\ chat[c].pc = "idle"
    /\ sessions' = SetSession(sid, EmptyDict)
    /\ scopingReqs' = scopingReqs \cup { [ session_id |-> sid, user_message |-> c ] }
    /\ sent' = sent \cup { Sent("scoping", sid, Tag(c, 0)) }
    /\ chat' = [ chat EXCEPT ![c] = [ @ EXCEPT !.pc = "scoping", !.i = 0,
                                               !.session_id = sid ] ]
    /\ UNCHANGED << scopingReplies, generalReqs, generalReplies, researchReqs,
                    researchReplies, mapboxReqs, mapboxReplies, poiReqs,
                    poiReplies, tokVars, negVars, vapiVars >>

\* main.py:227-247: create the session, drop the old scoping and research
\* entries, send the ScopingRequest
ChatStart(c, sid) ==
    /\ chat[c].pc = "idle"
    /\ sessions' = SetSession(sid, Pop(Pop(SessionOf(sid), "scoping"), "research"))
    /\ scopingReqs' = scopingReqs \cup { [ session_id |-> sid, user_message |-> c ] }
    /\ sent' = sent \cup { Sent("scoping", sid, Tag(c, 0)) }
    /\ chat' = [ chat EXCEPT ![c] = [ @ EXCEPT !.pc = "scoping", !.i = 0,
                                               !.session_id = sid ] ]
    /\ UNCHANGED << scopingReplies, generalReqs, generalReplies, researchReqs,
                    researchReplies, mapboxReqs, mapboxReplies, poiReqs,
                    poiReplies, tokVars, negVars, vapiVars >>

\* main.py:249-400: one wake-up of the call, run to its next sleep or return
ChatStep(c) ==
    /\ chat[c].pc \notin { "idle", "done" }
    /\ chat' = [ chat EXCEPT ![c] = Resume(sessions[chat[c].session_id], chat[c]) ]
    /\ UNCHANGED << sessions, netVars, sent, tokVars, negVars, vapiVars >>

(***************************************************************************)
(* The worker agents.  A request left in flight is one never answered.     *)
(***************************************************************************)
\* scoping_agent.py:78-170: one ScopingResponse with the request's session_id
ScopingAgent(req, cl) ==
    /\ req \in scopingReqs
    /\ scopingReplies' = scopingReplies \cup
           { ScopingResponse(req.session_id, req.user_message, cl) }
    /\ scopingReqs' = scopingReqs \ {req}
    /\ UNCHANGED << sessions, chat, generalReqs, generalReplies, researchReqs,
                    researchReplies, mapboxReqs, mapboxReplies, poiReqs,
                    poiReplies, sent, tokVars, negVars, vapiVars >>

\* the free-form-answer worker: one GeneralResponse (models.py:81-84)
GeneralAgent(req) ==
    /\ req \in generalReqs
    /\ generalReplies' = generalReplies \cup
           { [ session_id |-> req.session_id, answer |-> req.question ] }
    /\ generalReqs' = generalReqs \ {req}
    /\ UNCHANGED << sessions, chat, scopingReqs, scopingReplies, researchReqs,
                    researchReplies, mapboxReqs, mapboxReplies, poiReqs,
                    poiReplies, sent, tokVars, negVars, vapiVars >>

\* the property-search worker: one ResearchResponse (models.py:63-71)
ResearchAgent(req, isNone, cands) ==
    /\ req \in researchReqs
    /\ researchReplies' = researchReplies \cup
           { ResearchResponse(req.session_id, req.requirements, isNone, cands) }
    /\ researchReqs' = researchReqs \ {req}
    /\ UNCHANGED << sessions, chat, scopingReqs, scopingReplies, generalReqs,
                    generalReplies, mapboxReqs, mapboxReplies, poiReqs,
                    poiReplies, sent, tokVars, negVars, vapiVars >>

\* the reply that carries the session part of the request's id only
MapboxResponse_DropsIndex(req, failed) ==
    [ session_id |-> DecodeToken(req.session_id).base,
      address |-> req.address,
      latitude |-> IF failed THEN NoTag ELSE req.address,
      longitude |-> IF failed THEN NoTag ELSE req.address,
      error |-> failed ]

\* mapbox_agent.py:69-91: the reply carries the request's session_id; on an
\* error latitude and longitude are 0.0 and the address is the request's
MapboxResponse(req, failed) ==
    [ session_id |-> req.session_id,
      address |-> req.address,
      latitude |-> IF failed THEN NoTag ELSE req.address,
      longitude |-> IF failed THEN NoTag ELSE req.address,
      error |-> failed ]

MapboxAgent(req, failed) ==
    /\ req \in mapboxReqs
    /\ mapboxReplies' = mapboxReplies \cup { MapboxResponse(req, failed) }
    /\ mapboxReqs' = mapboxReqs \ {req}
    /\ UNCHANGED << sessions, chat, scopingReqs, scopingReplies, generalReqs,
                    generalReplies, researchReqs, researchReplies, poiReqs,
                    poiReplies, sent, tokVars, negVars, vapiVars >>

\* the point-of-interest worker: one LocalDiscoveryResponse (models.py:123-127)
\* whose list may be empty.  near is no field of the message: it names the
\* request answered, so that two equal replies stay two messages in the set
LocalDiscoveryAgent(req, empty) ==
    /\ req \in poiReqs
    /\ poiReplies' = poiReplies \cup
           { [ session_id |-> req.session_id,
               listing_index |-> req.listing_index,
               pois |-> IF empty THEN << >> ELSE << req.latitude >>,
               near |-> req.latitude ] }
    /\ poiReqs' = poiReqs \ {req}
    /\ UNCHANGED << sessions, chat, scopingReqs, scopingReplies, generalReqs,
                    generalReplies, researchReqs, researchReplies, mapboxReqs,
                    mapboxReplies, sent, tokVars, negVars, vapiVars >>

(***************************************************************************)
(* The coordinator's response handlers (main.py:76-223)                    *)
(***************************************************************************)
\* the routing that looks at the search branch first
ScopingRoute_SearchFirst(msg) ==
    IF msg.is_complete /\ msg.requirements # 0 THEN "research"
    ELSE IF msg.is_general_question /\ msg.general_question # 0 THEN "general"
    ELSE "none"

\* main.py:88-108: the request handle_scoping forwards, if any
ScopingRoute(msg) ==
    IF msg.is_general_question /\ msg.general_question # 0 THEN "general"
    ELSE IF msg.is_complete /\ msg.requirements # 0 THEN "research"
    ELSE "none"

\* main.py:76-108
HandleScoping(msg) ==
    /\ msg \in scopingReplies
    /\ scopingReplies' = scopingReplies \ {msg}
    /\ sessions' = SetSession(msg.session_id,
                              Put(SessionOf(msg.session_id), "scoping", msg))
    /\ generalReqs' =
           IF ScopingRoute(msg) = "general"
           THEN generalReqs \cup { [ session_id |-> msg.session_id,
                                     question |-> msg.general_question ] }
           ELSE generalReqs
    /\ researchReqs' =
           IF ScopingRoute(msg) = "research"
           THEN researchReqs \cup { [ session_id |-> msg.session_id,
                                      requirements |-> msg.requirements ] }
           ELSE researchReqs
    /\ sent' =
           CASE ScopingRoute(msg) = "general" ->
                  sent \cup { Sent("general", msg.session_id,
                                   Tag(msg.general_question, 0)) }
             [] ScopingRoute(msg) = "research" ->
                  sent \cup { Sent("research", msg.session_id,
                                   Tag(msg.requirements, 0)) }
             [] OTHER -> sent
    /\ UNCHANGED << chat, scopingReqs, generalReplies, researchReplies,
                    mapboxReqs, mapboxReplies, poiReqs, poiReplies, tokVars, negVars, vapiVars >>

\* the fan-out without the [:5] slice
FanOutIndices_NoCap(msg) ==
    IF msg.raw_is_none THEN {}
    ELSE { idx \in 0..(Len(msg.raw_search_results) - 1) :
             msg.raw_search_results[idx + 1].title # NoTag }

\* main.py:126-140: the indices of the first five results that get a
\* MapboxRequest: those whose title is not empty
FanOutIndices(msg) ==
    IF msg.raw_is_none THEN {}
    ELSE { idx \in 0..(Min(Len(msg.raw_search_results), BatchSize) - 1) :
             msg.raw_search_results[idx + 1].title # NoTag }

\* main.py:134-140
MapboxRequest(msg, idx) ==
    [ address |-> msg.raw_search_results[idx + 1].title,
      session_id |-> Encode(msg.session_id, idx) ]

\* storing a research reply without resetting the per-item results
StoreResearch_KeepCounters(S, msg) == Put(S, "research", msg)

\* main.py:117-121: the session entry after a research reply is stored
StoreResearch(S, msg) ==
    Put(Put(Put(Put(Put(S, "research", msg),
                    "geocoded_results", << >>),
                "geocoding_count", 0),
            "poi_results", << >>),
        "poi_count", 0)

\* main.py:110-142
HandleResearch(msg) ==
    /\ msg \in researchReplies
    /\ researchReplies' = researchReplies \ {msg}
    /\ sessions' = SetSession(msg.session_id,
                              StoreResearch(SessionOf(msg.session_id), msg))
    /\ mapboxReqs' = mapboxReqs \cup
           { MapboxRequest(msg, idx) : idx \in FanOutIndices(msg) }
    /\ sent' = sent \cup
           { Sent("mapbox", Encode(msg.session_id, idx),
                  msg.raw_search_results[idx + 1].title) :
               idx \in FanOutIndices(msg) }
    /\ UNCHANGED << chat, scopingReqs, scopingReplies, generalReqs,
                    generalReplies, researchReqs, mapboxReplies, poiReqs,
                    poiReplies, tokVars, negVars, vapiVars >>

\* the entry recorded under the first index whatever the reply's index
GeocodedEntry_IndexZero(msg, idx) ==
    [ index |-> 0, latitude |-> msg.latitude, longitude |-> msg.longitude,
      address |-> msg.address ]

\* main.py:163-168
GeocodedEntry(msg, idx) ==
    [ index |-> idx, latitude |-> msg.latitude, longitude |-> msg.longitude,
      address |-> msg.address ]

\* the counter raised inside the "if not msg.error" branch only
StoreGeocoded_CountSuccessOnly(S, msg, idx) ==
    LET withList == IF Has(S, "geocoded_results") THEN S
                    ELSE Put(S, "geocoded_results", << >>)
    IN  IF ~msg.error
        THEN Put(Put(withList, "geocoded_results",
                     Append(withList["geocoded_results"], GeocodedEntry(msg, idx))),
                 "geocoding_count", Get(withList, "geocoding_count", 0) + 1)
        ELSE withList

\* main.py:154-184: the session entry after a composite reply for idx
StoreGeocoded(S, msg, idx) ==
    LET withList == IF Has(S, "geocoded_results") THEN S
                    ELSE Put(S, "geocoded_results", << >>)
        withEntry == IF ~msg.error
                     THEN Put(withList, "geocoded_results",
                              Append(withList["geocoded_results"],
                                     GeocodedEntry(msg, idx)))
                     ELSE withList
    IN  Put(withEntry, "geocoding_count", Get(withEntry, "geocoding_count", 0) + 1)

\* the POI request tagged with the first listing whatever the index
LocalDiscoveryRequest_FirstListing(msg, base, idx) ==
    [ latitude |-> msg.latitude, longitude |-> msg.longitude,
      session_id |-> base, listing_index |-> 0 ]

\* main.py:172-180
LocalDiscoveryRequest(msg, base, idx) ==
    [ latitude |-> msg.latitude, longitude |-> msg.longitude,
      session_id |-> base, listing_index |-> idx ]

\* the handler that counts a reply with a plain id as a geocoding completed
HandleMapbox_PlainCounts(msg) ==
    /\ msg \in mapboxReplies
    /\ mapboxReplies' = mapboxReplies \ {msg}
    /\ LET d == DecodeToken(msg.session_id)
       IN  IF d.raised
              THEN UNCHANGED << sessions, poiReqs, sent >>
              ELSE IF d.composite
              THEN /\ sessions' = SetSession(d.base,
                                    StoreGeocoded(SessionOf(d.base), msg, d.idx))
                   /\ IF ~msg.error
                      THEN /\ poiReqs' = poiReqs \cup
                                  { LocalDiscoveryRequest(msg, d.base, d.idx) }
                           /\ sent' = sent \cup
                                  { Sent("local_discovery",
                                         Encode(d.base, d.idx), msg.latitude) }
                      ELSE UNCHANGED << poiReqs, sent >>
              ELSE /\ sessions' = SetSession(msg.session_id,
                                    Put(Put(SessionOf(msg.session_id), "mapbox", msg),
                                        "geocoding_count",
                                        Get(SessionOf(msg.session_id),
                                            "geocoding_count", 0) + 1))
                   /\ UNCHANGED << poiReqs, sent >>
    /\ UNCHANGED << chat, scopingReqs, scopingReplies, generalReqs,
                    generalReplies, researchReqs, researchReplies, mapboxReqs,
                    poiReplies, tokVars, negVars, vapiVars >>

\* main.py:144-196.  A session_id whose index does not parse makes int()
\* raise: the handler ends with nothing stored.
HandleMapbox(msg) ==
    /\ msg \in mapboxReplies
    /\ mapboxReplies' = mapboxReplies \ {msg}
    /\ LET d == DecodeToken(msg.session_id)
       IN  IF d.raised
              THEN UNCHANGED << sessions, poiReqs, sent >>
              ELSE IF d.composite
              THEN /\ sessions' = SetSession(d.base,
                                    StoreGeocoded(SessionOf(d.base), msg, d.idx))
                   /\ IF ~msg.error
                      THEN /\ poiReqs' = poiReqs \cup
                                  { LocalDiscoveryRequest(msg, d.base, d.idx) }
                           /\ sent' = sent \cup
                                  { Sent("local_discovery",
                                         Encode(d.base, d.idx), msg.latitude) }
                      ELSE UNCHANGED << poiReqs, sent >>
              ELSE /\ sessions' = SetSession(msg.session_id,
                                    Put(SessionOf(msg.session_id), "mapbox", msg))
                   /\ UNCHANGED << poiReqs, sent >>
    /\ UNCHANGED << chat, scopingReqs, scopingReplies, generalReqs,
                    generalReplies, researchReqs, researchReplies, mapboxReqs,
                    poiReplies, tokVars, negVars, vapiVars >>

\* a POI reply with an empty list neither recorded nor counted
StorePois_SkipEmpty(S, msg) ==
    LET withList == IF Has(S, "poi_results") THEN S
                    ELSE Put(S, "poi_results", << >>)
        withEntry == Put(withList, "poi_results",
                         Append(withList["poi_results"],
                                [ listing_index |-> msg.listing_index,
                                  pois |-> msg.pois ]))
    IN  IF msg.pois = << >>
        THEN withList
        ELSE Put(withEntry, "poi_count", Get(withEntry, "poi_count", 0) + 1)

\* main.py:202-214: the session entry after a POI reply
StorePois(S, msg) ==
    LET withList == IF Has(S, "poi_results") THEN S
                    ELSE Put(S, "poi_results", << >>)
        withEntry == Put(withList, "poi_results",
                         Append(withList["poi_results"],
                                [ listing_index |-> msg.listing_index,
                                  pois |-> msg.pois ]))
    IN  Put(withEntry, "poi_count", Get(withEntry, "poi_count", 0) + 1)

\* a POI reply that replaces the POI list recorded so far
HandleLocalDiscovery_ReplacesList(msg) ==
    /\ msg \in poiReplies
    /\ poiReplies' = poiReplies \ {msg}
    /\ sessions' = SetSession(msg.session_id,
                              Put(StorePois(SessionOf(msg.session_id), msg),
                                  "poi_results",
                                  << [ listing_index |-> msg.listing_index,
                                       pois |-> msg.pois ] >>))
    /\ UNCHANGED << chat, scopingReqs, scopingReplies, generalReqs,
                    generalReplies, researchReqs, researchReplies, mapboxReqs,
                    mapboxReplies, poiReqs, sent, tokVars, negVars, vapiVars >>

\* main.py:198-214
HandleLocalDiscovery(msg) ==
    /\ msg \in poiReplies
    /\ poiReplies' = poiReplies \ {msg}
    /\ sessions' = SetSession(msg.session_id,
                              StorePois(SessionOf(msg.session_id), msg))
    /\ UNCHANGED << chat, scopingReqs, scopingReplies, generalReqs,
                    generalReplies, researchReqs, researchReplies, mapboxReqs,
                    mapboxReplies, poiReqs, sent, tokVars, negVars, vapiVars >>

\* a general answer dropped when no call of its session is waiting any more
HandleGeneral_DropsLate(msg) ==
    /\ msg \in generalReplies
    /\ generalReplies' = generalReplies \ {msg}
    /\ sessions' =
          IF \E c \in ChatIds : /\ chat[c].session_id = msg.session_id
                                /\ chat[c].pc # "done"
          THEN SetSession(msg.session_id,
                          Put(SessionOf(msg.session_id), "general", msg))
          ELSE sessions
    /\ UNCHANGED << chat, scopingReqs, scopingReplies, generalReqs,
                    researchReqs, researchReplies, mapboxReqs, mapboxReplies,
                    poiReqs, poiReplies, sent, tokVars, negVars, vapiVars >>

\* main.py:216-223
HandleGeneral(msg) ==
    /\ msg \in generalReplies
    /\ generalReplies' = generalReplies \ {msg}
    /\ sessions' = SetSession(msg.session_id,
                              Put(SessionOf(msg.session_id), "general", msg))
    /\ UNCHANGED << chat, scopingReqs, scopingReplies, generalReqs,
                    researchReqs, researchReplies, mapboxReqs, mapboxReplies,
                    poiReqs, poiReplies, sent, tokVars, negVars, vapiVars >>

(***************************************************************************)
(* The negotiation workflow (negotiation_workflow.py) and the Vapi agent    *)
(* (vapi_agent.py) before anything was asked of them.                      *)
(***************************************************************************)
\* negotiate_property calls (HTTP requests) over the whole run
MaxNegotiations == 2

NegotiateIds == 1..MaxNegotiations

\* a negotiate_property call not made yet; session_id 0: no uuid drawn yet
IdleNegotiation ==
    [ pc |-> "idle", waited |-> 0, session_id |-> 0, outcome |-> "none",
      prober_result |-> 0 ]

\* negotiation_workflow.py:70
WorkflowIdle ==
    /\ prober_responses = EmptyDict
    /\ negotiate = [ n \in NegotiateIds |-> IdleNegotiation ]
    /\ proberReqs = {}
    /\ proberReplies = {}

\* vapi_agent.py:153-157 with no VAPI_API_KEY in the environment
VapiIdle ==
    /\ vapi_client = FALSE
    /\ vapiReqs = {}
    /\ vapiReplies = << >>
    /\ vapiCalls = << >>

(***************************************************************************)
(* The coordinator with its workers.                                       *)
(***************************************************************************)
Init ==
    /\ sessions = EmptyDict
    /\ chat = [ c \in ChatIds |-> IdleChat ]
    /\ scopingReqs = {} /\ scopingReplies = {}
    /\ generalReqs = {} /\ generalReplies = {}
    /\ researchReqs = {} /\ researchReplies = {}
    /\ mapboxReqs = {} /\ mapboxReplies = {}
    /\ poiReqs = {} /\ poiReplies = {}
    /\ sent = {}
    /\ tokIn = << >> /\ idxIn = 0 /\ tokOut = NotDecoded
    /\ WorkflowIdle
    /\ VapiIdle

\* the lengths of the raw_search_results lists of a research reply: the short
\* ones, and one more than the batch holds
CandLengths == (0..MaxCand) \cup { BatchSize + 1 }

\* the user sends the next message when the answer to the last one is in
Sequential(c) == \A d \in ChatIds : d < c => chat[d].pc = "done"

\* the ScopingResponse of a complete property search
SearchClass ==
    [ is_general_question |-> FALSE, has_question |-> FALSE,
      is_complete |-> TRUE, has_requirements |-> TRUE ]

\* the coordinator's handlers, the same under every environment
Handlers ==
    \/ \E msg \in scopingReplies : HandleScoping(msg)
    \/ \E msg \in researchReplies : HandleResearch(msg)
    \/ \E msg \in mapboxReplies : HandleMapbox(msg)
    \/ \E msg \in poiReplies : HandleLocalDiscovery(msg)
    \/ \E msg \in generalReplies : HandleGeneral(msg)

\* One request on one session; the workers answer any way they can, the
\* Mapbox and local-discovery agents at most MaxGeoReplies and MaxPoiReplies
\* requests.
Next ==
    \/ ChatStart(1, <<"a">>)
    \/ ChatStep(1)
    \/ \E req \in scopingReqs, cl \in Classes : ScopingAgent(req, cl)
    \/ \E req \in generalReqs : GeneralAgent(req)
    \/ \E req \in researchReqs : ResearchAgent(req, TRUE, << >>)
    \/ \E req \in researchReqs, n \in CandLengths, u \in BOOLEAN :
          ResearchAgent(req, FALSE, CandList(req.requirements, n, u))
    \/ \E req \in mapboxReqs, failed \in BOOLEAN :
          /\ Answered("mapbox", mapboxReqs) < MaxGeoReplies
          /\ MapboxAgent(req, failed)
    \/ \E req \in poiReqs, empty \in BOOLEAN :
          /\ Answered("local_discovery", poiReqs) < MaxPoiReplies
          /\ LocalDiscoveryAgent(req, empty)
    \/ Handlers

Spec == Init /\ [][Next]_vars

\* Successive requests on one session, each sent when the last was answered;
\* every classification is a complete property search and every research
\* reply carries one titled result.
NextRepeat ==
    \/ \E c \in ChatIds : Sequential(c) /\ ChatStart(c, <<"a">>)
    \/ \E c \in ChatIds : ChatStep(c)
    \/ \E req \in scopingReqs : ScopingAgent(req, SearchClass)
    \/ \E req \in researchReqs :
          ResearchAgent(req, FALSE, CandList(req.requirements, 1, FALSE))
    \/ \E req \in mapboxReqs, failed \in BOOLEAN : MapboxAgent(req, failed)
    \/ \E req \in poiReqs, empty \in BOOLEAN : LocalDiscoveryAgent(req, empty)
    \/ \E msg \in scopingReplies : HandleScoping(msg)
    \/ \E msg \in researchReplies : HandleResearch(msg)
    \/ \E msg \in mapboxReplies : HandleMapbox(msg)
    \/ \E msg \in poiReplies : HandleLocalDiscovery(msg)

SpecRepeat == Init /\ [][NextRepeat]_vars

\* Successive requests on one session whose research replies carry three
\* titled results each, with no Mapbox token configured
\* (mapbox_agent.py:17-18): every geocoding reply carries an error.
NextBurst ==
    \/ \E c \in ChatIds : Sequential(c) /\ ChatStart(c, <<"a">>)
    \/ \E c \in ChatIds : ChatStep(c)
    \/ \E req \in scopingReqs : ScopingAgent(req, SearchClass)
    \/ \E req \in researchReqs :
          ResearchAgent(req, FALSE, CandList(req.requirements, 3, FALSE))
    \/ \E req \in mapboxReqs : MapboxAgent(req, TRUE)
    \/ \E msg \in scopingReplies : HandleScoping(msg)
    \/ \E msg \in researchReplies : HandleResearch(msg)
    \/ \E msg \in mapboxReplies : HandleMapbox(msg)

SpecBurst == Init /\ [][NextBurst]_vars

\* the ScopingResponse of a general question, and of a conversation that
\* still lacks requirements (scoping_agent.py:143-151)
GeneralClass ==
    [ is_general_question |-> TRUE, has_question |-> TRUE,
      is_complete |-> FALSE, has_requirements |-> FALSE ]

IncompleteClass ==
    [ is_general_question |-> FALSE, has_question |-> FALSE,
      is_complete |-> FALSE, has_requirements |-> FALSE ]

\* Successive requests on one session, each sent when the last was answered,
\* none of them a complete property search: general questions and
\* conversation turns.
NextTalk ==
    \/ \E c \in ChatIds : Sequential(c) /\ ChatStart(c, <<"a">>)
    \/ \E c \in ChatIds : ChatStep(c)
    \/ \E req \in scopingReqs, cl \in { GeneralClass, IncompleteClass } :
          ScopingAgent(req, cl)
    \/ \E req \in generalReqs : GeneralAgent(req)
    \/ \E msg \in scopingReplies : HandleScoping(msg)
    \/ \E msg \in generalReplies : HandleGeneral(msg)

SpecTalk == Init /\ [][NextTalk]_vars

\* the user sends the next message while the call for the last one is still
\* waiting
Overlapping(c) ==
    \A d \in ChatIds : d = c - 1 => chat[d].pc \notin { "idle", "done" }

\* Requests on one session sent while the previous one is in flight; every
\* classification is a conversation turn.
NextOverlap ==
    \/ \E c \in ChatIds : Overlapping(c) /\ ChatStart(c, <<"a">>)
    \/ \E c \in ChatIds : ChatStep(c)
    \/ \E req \in scopingReqs : ScopingAgent(req, IncompleteClass)
    \/ \E msg \in scopingReplies : HandleScoping(msg)

SpecOverlap == Init /\ [][NextOverlap]_vars

\* Two requests, each on either session id, the second sent when the first
\* was answered; every classification is a complete property search and
\* every research reply carries one titled result.
NextPair ==
    \/ \E c \in ChatIds, sid \in Sessions : Sequential(c) /\ ChatStart(c, sid)
    \/ \E c \in ChatIds : ChatStep(c)
    \/ \E req \in scopingReqs : ScopingAgent(req, SearchClass)
    \/ \E req \in researchReqs :
          ResearchAgent(req, FALSE, CandList(req.requirements, 1, FALSE))
    \/ \E req \in mapboxReqs, failed \in BOOLEAN : MapboxAgent(req, failed)
    \/ \E req \in poiReqs : LocalDiscoveryAgent(req, FALSE)
    \/ \E msg \in scopingReplies : HandleScoping(msg)
    \/ \E msg \in researchReplies : HandleResearch(msg)
    \/ \E msg \in mapboxReplies : HandleMapbox(msg)
    \/ \E msg \in poiReplies : HandleLocalDiscovery(msg)

SpecPair == Init /\ [][NextPair]_vars

\* the property-search worker answering with result_images (models.py:71)
ResearchAgentWithImages(req, cands, images) ==
    /\ req \in researchReqs
    /\ researchReplies' = researchReplies \cup
           { ResearchResponseWithImages(req.session_id, req.requirements,
                                        cands, images) }
    /\ researchReqs' = researchReqs \ {req}
    /\ UNCHANGED << sessions, chat, scopingReqs, scopingReplies, generalReqs,
                    generalReplies, mapboxReqs, mapboxReplies, poiReqs,
                    poiReplies, sent, tokVars, negVars, vapiVars >>

\* the result_images lists: none, one for the first result, one for the
\* second, two for the first
ImageLists(r) ==
    { << >>,
      << ResultImage(r, 0, 0) >>,
      << ResultImage(r, 1, 1) >>,
      << ResultImage(r, 0, 0), ResultImage(r, 0, 1) >> }

\* One property search whose research reply carries result_images and at
\* most MaxCand results.
NextImage ==
    \/ ChatStart(1, <<"a">>)
    \/ ChatStep(1)
    \/ \E req \in scopingReqs : ScopingAgent(req, SearchClass)
    \/ \E req \in researchReqs, n \in 0..MaxCand, u \in BOOLEAN :
          \E images \in ImageLists(req.requirements) :
             ResearchAgentWithImages(req, CandList(req.requirements, n, u), images)
    \/ \E req \in mapboxReqs, failed \in BOOLEAN : MapboxAgent(req, failed)
    \/ \E req \in poiReqs : LocalDiscoveryAgent(req, FALSE)
    \/ \E msg \in scopingReplies : HandleScoping(msg)
    \/ \E msg \in researchReplies : HandleResearch(msg)
    \/ \E msg \in mapboxReplies : HandleMapbox(msg)
    \/ \E msg \in poiReplies : HandleLocalDiscovery(msg)

SpecImage == Init /\ [][NextImage]_vars

(***************************************************************************)
(* The handlers on their own.  on_message accepts a reply from any sender  *)
(* (main.py:76, 110, 144, 198, 216), so a reply can reach the coordinator   *)
(* for a session id it has no record of, and a MapboxResponse can carry a  *)
(* plain session id (main.py:186).  One such reply is in flight, or two     *)
(* geocoding replies.                                                      *)
(***************************************************************************)
\* the indices the replies in flight are drawn from
ColdIndices == 0..MaxCand

ColdScoping ==
    { ScopingResponse(sid, 1, cl) :
        sid \in Sessions, cl \in { SearchClass, GeneralClass, IncompleteClass } }

ColdGeneral == { [ session_id |-> sid, answer |-> 1 ] : sid \in Sessions }

ColdResearch ==
    { ResearchResponse(sid, 1, FALSE, CandList(1, n, FALSE)) :
        sid \in Sessions, n \in 0..MaxCand }
    \cup { ResearchResponse(sid, 1, TRUE, << >>) : sid \in Sessions }

ColdMapbox ==
    { MapboxResponse([ session_id |-> IF plain THEN sid ELSE Encode(sid, idx),
                       address |-> Tag(1, idx) ], failed) :
        sid \in Sessions, idx \in ColdIndices,
        plain \in BOOLEAN, failed \in BOOLEAN }

ColdPoi ==
    { [ session_id |-> sid, listing_index |-> idx,
        pois |-> IF empty THEN << >> ELSE << Tag(1, idx) >>,
        near |-> Tag(1, idx) ] :
        sid \in Sessions, idx \in ColdIndices, empty \in BOOLEAN }

InitCold ==
    /\ sessions = EmptyDict
    /\ chat = [ c \in ChatIds |-> IdleChat ]
    /\ scopingReqs = {} /\ generalReqs = {} /\ researchReqs = {}
    /\ mapboxReqs = {} /\ poiReqs = {}
    /\ sent = {}
    /\ tokIn = << >> /\ idxIn = 0 /\ tokOut = NotDecoded
    /\ WorkflowIdle
    /\ VapiIdle
    /\ \/ /\ \E m \in ColdScoping : scopingReplies = {m}
          /\ generalReplies = {} /\ researchReplies = {}
          /\ mapboxReplies = {} /\ poiReplies = {}
       \/ /\ \E m \in ColdGeneral : generalReplies = {m}
          /\ scopingReplies = {} /\ researchReplies = {}
          /\ mapboxReplies = {} /\ poiReplies = {}
       \/ /\ \E m \in ColdResearch : researchReplies = {m}
          /\ scopingReplies = {} /\ generalReplies = {}
          /\ mapboxReplies = {} /\ poiReplies = {}
       \/ /\ \E m1, m2 \in ColdMapbox : mapboxReplies = {m1, m2}
          /\ scopingReplies = {} /\ generalReplies = {}
          /\ researchReplies = {} /\ poiReplies = {}
       \/ /\ \E m \in ColdPoi : poiReplies = {m}
          /\ scopingReplies = {} /\ generalReplies = {}
          /\ researchReplies = {} /\ mapboxReplies = {}

\* the reply is handled before or after a first call is made on one of the
\* sessions; no worker answers
NextCold ==
    \/ \E sid \in Sessions : ChatStart(1, sid)
    \/ ChatStep(1)
    \/ \E msg \in scopingReplies : HandleScoping(msg)
    \/ \E msg \in researchReplies : HandleResearch(msg)
    \/ \E msg \in mapboxReplies : HandleMapbox(msg)
    \/ \E msg \in poiReplies : HandleLocalDiscovery(msg)
    \/ \E msg \in generalReplies : HandleGeneral(msg)

SpecCold == InitCold /\ [][NextCold]_vars

(***************************************************************************)
(* The composite id on its own: handle_research's encoding of a session id *)
(* and an index, then handle_mapbox's decoding of the result.              *)
(***************************************************************************)
InitToken ==
    /\ sessions = EmptyDict
    /\ chat = [ c \in ChatIds |-> IdleChat ]
    /\ scopingReqs = {} /\ scopingReplies = {}
    /\ generalReqs = {} /\ generalReplies = {}
    /\ researchReqs = {} /\ researchReplies = {}
    /\ mapboxReqs = {} /\ mapboxReplies = {}
    /\ poiReqs = {} /\ poiReplies = {}
    /\ sent = {}
    /\ tokIn \in ValidTokens
    /\ idxIn \in 0..(BatchSize - 1)
    /\ tokOut = NotDecoded
    /\ WorkflowIdle
    /\ VapiIdle

\* main.py:138 then main.py:149-152
RoundTrip ==
    /\ tokOut = NotDecoded
    /\ tokOut' = DecodeToken(Encode(tokIn, idxIn))
    /\ UNCHANGED << sessions, chat, netVars, sent, tokIn, idxIn,
                    negVars, vapiVars >>

\* main.py:149, 186-191: a session id that was never encoded
PlainToken ==
    /\ tokOut = NotDecoded
    /\ tokOut' = DecodeToken(tokIn)
    /\ UNCHANGED << sessions, chat, netVars, sent, tokIn, idxIn,
                    negVars, vapiVars >>

NextToken == RoundTrip \/ PlainToken

SpecToken == InitToken /\ [][NextToken]_vars


(***************************************************************************)
(* Reading the session store.                                              *)
(***************************************************************************)
Entry(ss, sid) == IF sid \in DOMAIN ss THEN ss[sid] ELSE EmptyDict

GeoList(ss, sid) == Get(Entry(ss, sid), "geocoded_results", << >>)

GeoCount(ss, sid) == Get(Entry(ss, sid), "geocoding_count", 0)

PoiList(ss, sid) == Get(Entry(ss, sid), "poi_results", << >>)

PoiCount(ss, sid) == Get(Entry(ss, sid), "poi_count", 0)

\* the composite ids of the MapboxRequests sent so far
MapboxIdsSent == { x.session_id : x \in { y \in sent : y.to = "mapbox" } }

\* the requests sent to a worker other than the scoping agent on behalf of
\* the message of call c
Downstream(c) == { x \in sent : x.to # "scoping" /\ x.tag.rid = c }

\* the classification of call c's message is still on its way
ScopingPending(c) ==
    \/ \E req \in scopingReqs : req.user_message = c
    \/ \E msg \in scopingReplies : msg.agent_message = c

Done(c) == chat[c].pc = "done"

(***************************************************************************)
(* C1.  Recording a result for an index that already has a recorded value  *)
(* changes neither the category's list nor its counter: a second           *)
(* geocoding reply or POI reply for the index is ignored.                  *)
(***************************************************************************)
C1_RecordedOnce ==
    [][ /\ \A msg \in mapboxReplies :
             LET d == DecodeToken(msg.session_id)
             IN  ( /\ msg \notin mapboxReplies'
                   /\ ~msg.error
                   /\ Matches(GeoList(sessions, d.base), "index", d.idx) # {} )
                 => /\ GeoList(sessions', d.base) = GeoList(sessions, d.base)
                    /\ GeoCount(sessions', d.base) = GeoCount(sessions, d.base)
        /\ \A msg \in poiReplies :
             ( /\ msg \notin poiReplies'
               /\ Matches(PoiList(sessions, msg.session_id),
                          "listing_index", msg.listing_index) # {} )
             => /\ PoiList(sessions', msg.session_id) = PoiList(sessions, msg.session_id)
                /\ PoiCount(sessions', msg.session_id) = PoiCount(sessions, msg.session_id)
      ]_vars

(***************************************************************************)
(* C2.  As claimed: handling a geocoding reply that carries an error       *)
(* leaves the session's geocoding counter unchanged.                       *)
(***************************************************************************)
C2_ErrorNotCounted ==
    [][ \A msg \in mapboxReplies :
          LET d == DecodeToken(msg.session_id)
          IN  (msg \notin mapboxReplies' /\ msg.error /\ d.composite)
              => GeoCount(sessions', d.base) = GeoCount(sessions, d.base)
      ]_vars

\* C2, amended.  Handling a geocoding reply that carries an error records no
\* coordinate (the list of geocoded results is unchanged) and adds one to the
\* session's geocoding counter.
C2_ErrorCountedNotRecorded ==
    [][ \A msg \in mapboxReplies :
          LET d == DecodeToken(msg.session_id)
          IN  (msg \notin mapboxReplies' /\ msg.error /\ d.composite)
              => /\ GeoList(sessions', d.base) = GeoList(sessions, d.base)
                 /\ GeoCount(sessions', d.base) = GeoCount(sessions, d.base) + 1
      ]_vars

\* an error reply has been handled: counted, nothing recorded
C2_Witness ==
    \E sid \in DOMAIN sessions :
        GeoCount(sessions, sid) >= 1 /\ GeoList(sessions, sid) = << >>

(***************************************************************************)
(* C3.  Handling a geocoding error reply for index i records no coordinate *)
(* and sends no POI request; handling a successful reply for index j       *)
(* appends j's coordinate and sends exactly one POI request, for j, with   *)
(* that coordinate.  Entries recorded earlier stay as they are.            *)
(***************************************************************************)
C3_ErrorStopsAtIndex ==
    [][ \A msg \in mapboxReplies :
          LET d == DecodeToken(msg.session_id)
          IN  (msg \notin mapboxReplies' /\ d.composite)
              => IF msg.error
                 THEN /\ GeoList(sessions', d.base) = GeoList(sessions, d.base)
                      /\ poiReqs' = poiReqs
                      /\ sent' = sent
                 ELSE /\ GeoList(sessions', d.base) =
                            Append(GeoList(sessions, d.base),
                                   [ index |-> d.idx, latitude |-> msg.latitude,
                                     longitude |-> msg.longitude,
                                     address |-> msg.address ])
                      /\ poiReqs' \ poiReqs =
                            { [ latitude |-> msg.latitude,
                                longitude |-> msg.longitude,
                                session_id |-> d.base, listing_index |-> d.idx ] }
                      /\ \A req \in poiReqs' :
                            req.listing_index # d.idx => req \in poiReqs
      ]_vars

\* one index answered with an error, a sibling with a coordinate and its
\* POI request
C3_Witness ==
    \E sid \in DOMAIN sessions :
        /\ GeoCount(sessions, sid) = 2
        /\ Len(GeoList(sessions, sid)) = 1
        /\ Cardinality({ x \in sent : x.to = "local_discovery" }) = 1

C6_RoundTrip ==
    (tokOut # NotDecoded /\ tokOut.composite)
    => tokOut = [ raised |-> FALSE, composite |-> TRUE,
                  base |-> tokIn, idx |-> idxIn ]

(***************************************************************************)
(* C7.  In every state each completion counter of every session is at most *)
(* the batch size.                                                         *)
(***************************************************************************)
C7_CountersBounded ==
    \A sid \in DOMAIN sessions :
        /\ GeoCount(sessions, sid) <= BatchSize
        /\ PoiCount(sessions, sid) <= BatchSize

(***************************************************************************)
(* C8.  As claimed: no step lowers a completion counter of a session.      *)
(***************************************************************************)
C8_CountersNeverDecrease ==
    [][ \A sid \in DOMAIN sessions :
          /\ GeoCount(sessions', sid) >= GeoCount(sessions, sid)
          /\ PoiCount(sessions', sid) >= PoiCount(sessions, sid)
      ]_vars

\* C8, amended.  A step lowers a completion counter only when handle_research
\* stores a new primary result, which sets both counters of that session to
\* 0; every other step leaves each counter or raises it.
C8_CountersDecreaseOnlyOnReset ==
    [][ \A sid \in DOMAIN sessions :
          IF \E msg \in researchReplies :
                 msg \notin researchReplies' /\ msg.session_id = sid
          THEN GeoCount(sessions', sid) = 0 /\ PoiCount(sessions', sid) = 0
          ELSE /\ GeoCount(sessions', sid) >= GeoCount(sessions, sid)
               /\ PoiCount(sessions', sid) >= PoiCount(sessions, sid)
      ]_vars

\* the second primary result is stored and the counters, reset by it, have
\* gone up again
C8_Witness ==
    \E sid \in DOMAIN sessions :
        /\ Has(sessions[sid], "research")
        /\ sessions[sid]["research"].search_summary = 2
        /\ GeoCount(sessions, sid) >= 1
        /\ PoiCount(sessions, sid) >= 1

(***************************************************************************)
(* C9.  A call that has read the stored primary result returns status      *)
(* "success", whatever the result holds and whatever replies arrived.      *)
(***************************************************************************)
C9_SuccessOncePrimaryStored ==
    \A c \in ChatIds :
        (Done(c) /\ chat[c].research_msg # NoResearch)
        => chat[c].resp.status = "success"

(***************************************************************************)
(* C10.  A call returns status "error" only when its classification wait   *)
(* timed out, its primary-result wait timed out or an exception was        *)
(* raised; every other call that returns, returns status "success".        *)
(***************************************************************************)
C10_ErrorOnlyThreeWays ==
    \A c \in ChatIds :
        Done(c) =>
           /\ chat[c].resp.status \in { "success", "error" }
           /\ chat[c].resp.status = "error"
                => chat[c].path \cap { "scoping_timeout", "research_timeout",
                                       "exception" } # {}
           /\ chat[c].path \cap { "scoping_timeout", "research_timeout",
                                  "exception" } = {}
                => chat[c].resp.status = "success"

\* an error returned because the research agent did not answer in time
C10_Witness ==
    \E c \in ChatIds :
        /\ Done(c)
        /\ chat[c].resp.status = "error"
        /\ "research_timeout" \in chat[c].path

(***************************************************************************)
(* C11.  A call whose classification is a complete property search and     *)
(* whose primary-result wait ran out without a research reply stored       *)
(* returns status "error" with the message that the research agent did not *)
(* respond in time; a call of that class that returns without having read  *)
(* a primary result and without a general answer has run that wait out.    *)
(***************************************************************************)
C11_ResearchTimeoutIsError ==
    \A c \in ChatIds :
        /\ "research_timeout" \in chat[c].path
             => /\ Done(c)
                /\ chat[c].scoping_msg.is_complete
                /\ chat[c].scoping_msg.requirements # 0
                /\ chat[c].research_msg = NoResearch
                /\ chat[c].resp =
                      ErrorResponse("Research agent did not respond in time")
        /\ ( /\ Done(c)
             /\ chat[c].scoping_msg.is_complete
             /\ chat[c].scoping_msg.requirements # 0
             /\ ~chat[c].scoping_msg.is_general_question
             /\ chat[c].research_msg = NoResearch )
             => /\ "research_timeout" \in chat[c].path
                /\ chat[c].resp =
                      ErrorResponse("Research agent did not respond in time")

\* the call gave up on the research agent, whose request is still unanswered
C11_Witness ==
    \E c \in ChatIds :
        /\ Done(c)
        /\ ~chat[c].scoping_msg.is_general_question
        /\ chat[c].resp = ErrorResponse("Research agent did not respond in time")
        /\ \E req \in researchReqs : req.requirements = c

(***************************************************************************)
(* Reading a returned call.                                                *)
(***************************************************************************)
\* the call read the primary result produced for its own message
ReadOwnResearch(c) ==
    /\ chat[c].research_msg # NoResearch
    /\ chat[c].research_msg.search_summary = c

\* call c is the last one made, and every call before it read its own
\* primary result: the only primary result stored since c began is c's own
LastSearch(c) ==
    /\ ReadOwnResearch(c)
    /\ ~chat[c].research_msg.raw_is_none
    /\ \A d \in ChatIds : d < c => ReadOwnResearch(d)
    /\ \A e \in ChatIds : e > c => chat[e].pc = "idle"

\* the enhanced results of a property-search response
Enriched(c) == chat[c].resp.data.raw_search_results

(***************************************************************************)
(* C12.  A call that read a primary result with n >= 1 candidates, with no  *)
(* geocoding reply handled since that result was stored, returns status    *)
(* "success" with min(5, n) enhanced results, none of which has a          *)
(* coordinate or point-of-interest data.                                   *)
(***************************************************************************)
C12_NoGeocodingNoData ==
    \A c \in ChatIds :
        ( /\ Done(c)
          /\ LastSearch(c)
          /\ Len(chat[c].research_msg.raw_search_results) >= 1
          /\ GeoCount(sessions, chat[c].session_id) = 0 )
        => /\ chat[c].resp.status = "success"
           /\ Len(Enriched(c)) =
                 Min(BatchSize, Len(chat[c].research_msg.raw_search_results))
           /\ \A p \in 1..Len(Enriched(c)) :
                 /\ ~Has(Enriched(c)[p], "latitude")
                 /\ Enriched(c)[p]["pois"] = << >>

\* every one of the first n results of call c's own fan-out had its
\* coordinate recorded when the call merged
OwnGeocoded(c, n) ==
    \A idx \in 0..(n - 1) :
        \E p \in 1..Len(chat[c].geocoded_results) :
            /\ chat[c].geocoded_results[p].index = idx
            /\ chat[c].geocoded_results[p].latitude = Tag(c, idx)

\* every one of the first n results of call c's own fan-out had a non-empty
\* POI list recorded when the call merged
OwnPois(c, n) ==
    \A idx \in 0..(n - 1) :
        \E p \in 1..Len(chat[c].poi_results) :
            /\ chat[c].poi_results[p].listing_index = idx
            /\ chat[c].poi_results[p].pois = << Tag(c, idx) >>

(***************************************************************************)
(* C13.  A call whose own primary result has 1 <= n <= 5 candidates, whose  *)
(* n geocoding replies all succeeded and whose n POI replies all carried a *)
(* non-empty list, all recorded before the call merged, returns n enhanced *)
(* results, each with a coordinate and a non-empty POI list, and the       *)
(* total_found the research agent reported.                                *)
(***************************************************************************)
C13_AllEnriched ==
    \A c \in ChatIds :
        LET n == Len(chat[c].research_msg.raw_search_results)
        IN  ( /\ Done(c)
              /\ LastSearch(c)
              /\ n \in 1..BatchSize
              /\ OwnGeocoded(c, n)
              /\ OwnPois(c, n) )
            => /\ chat[c].resp.status = "success"
               /\ Len(Enriched(c)) = n
               /\ \A p \in 1..n :
                     /\ Has(Enriched(c)[p], "latitude")
                     /\ Enriched(c)[p]["pois"] # << >>
               /\ chat[c].resp.data.total_found = n + c

\* the call read the classification produced for its own message
ReadOwnScoping(c) == chat[c].scoping_msg.agent_message = c

(***************************************************************************)
(* C14.  A call whose message was classified as a general question and     *)
(* that found a general answer stored within its general wait returns      *)
(* status "success", no properties, total_found 0 and, as the summary, the *)
(* answer the general agent produced for that call's question.             *)
(***************************************************************************)
C14_GeneralAnswer ==
    \A c \in ChatIds :
        ( /\ Done(c)
          /\ ReadOwnScoping(c)
          /\ chat[c].scoping_msg.is_general_question
          /\ "general_timeout" \notin chat[c].path )
        => /\ chat[c].resp.status = "success"
           /\ chat[c].resp.data.properties = << >>
           /\ chat[c].resp.data.total_found = 0
           /\ chat[c].resp.data.search_summary =
                 [ from |-> "general", text |-> c ]

(***************************************************************************)
(* C15.  As claimed, with the class read off the reply's flags: handling a *)
(* classification reply flagged as a general question sends exactly one    *)
(* GeneralRequest with its question and no ResearchRequest; one flagged    *)
(* complete with requirements (and not general) sends exactly one          *)
(* ResearchRequest with the requirements and no GeneralRequest; any other  *)
(* reply sends nothing.                                                    *)
(***************************************************************************)
C15_RouteByFlags ==
    [][ \A msg \in scopingReplies :
          msg \notin scopingReplies' =>
             IF msg.is_general_question
             THEN /\ sent' \ sent =
                        { Sent("general", msg.session_id,
                               Tag(msg.general_question, 0)) }
                  /\ researchReqs' = researchReqs
             ELSE IF msg.is_complete /\ msg.requirements # 0
             THEN /\ sent' \ sent =
                        { Sent("research", msg.session_id,
                               Tag(msg.requirements, 0)) }
                  /\ generalReqs' = generalReqs
             ELSE sent' = sent
      ]_vars

\* C15, amended.  Handling a classification reply that is flagged as a
\* general question and carries a question text sends exactly one
\* GeneralRequest with that question and no ResearchRequest, whether or not
\* the reply is also a complete search; otherwise a reply that is complete
\* and carries requirements sends exactly one ResearchRequest with them and
\* no GeneralRequest; any other reply, one flagged general without a question
\* text included, sends nothing.  No other request is sent by the step.
C15_RouteByFlagsAndText ==
    [][ \A msg \in scopingReplies :
          msg \notin scopingReplies' =>
             /\ IF msg.is_general_question /\ msg.general_question # 0
                THEN /\ sent' \ sent =
                           { Sent("general", msg.session_id,
                                  Tag(msg.general_question, 0)) }
                     /\ generalReqs' \ generalReqs =
                           { [ session_id |-> msg.session_id,
                               question |-> msg.general_question ] }
                     /\ researchReqs' = researchReqs
                ELSE IF msg.is_complete /\ msg.requirements # 0
                THEN /\ sent' \ sent =
                           { Sent("research", msg.session_id,
                                  Tag(msg.requirements, 0)) }
                     /\ researchReqs' \ researchReqs =
                           { [ session_id |-> msg.session_id,
                               requirements |-> msg.requirements ] }
                     /\ generalReqs' = generalReqs
                ELSE /\ sent' = sent
                     /\ generalReqs' = generalReqs
                     /\ researchReqs' = researchReqs
             /\ UNCHANGED << scopingReqs, mapboxReqs, poiReqs >>
      ]_vars

\* a reply that is both a general question and a complete search has been
\* routed: to the general agent only
C15_Witness ==
    \E sid \in DOMAIN sessions :
        /\ Has(sessions[sid], "scoping")
        /\ sessions[sid]["scoping"].is_general_question
        /\ sessions[sid]["scoping"].general_question # 0
        /\ sessions[sid]["scoping"].is_complete
        /\ sessions[sid]["scoping"].requirements # 0
        /\ Cardinality({ x \in sent : x.to = "general" }) = 1
        /\ { x \in sent : x.to = "research" } = {}

\* the classification is neither a general question nor a complete search
\* with requirements (main.py:263, 284)
Incomplete(scoping_msg) ==
    /\ ~scoping_msg.is_general_question
    /\ ~(scoping_msg.is_complete /\ scoping_msg.requirements # 0)

(***************************************************************************)
(* C16.  The step in which a call observes a classification that is        *)
(* neither a general question nor a complete search is the step in which   *)
(* it returns: with status "success", the classifier's agent message as    *)
(* the summary, no properties and total_found 0, and no wait timed out.    *)
(***************************************************************************)
C16_IncompleteReturnsAtOnce ==
    [][ \A c \in ChatIds :
          ( /\ chat[c].scoping_msg = NoScoping
            /\ chat'[c].scoping_msg # NoScoping
            /\ Incomplete(chat'[c].scoping_msg) )
          => /\ chat'[c].pc = "done"
             /\ chat'[c].path = {}
             /\ chat'[c].resp.status = "success"
             /\ chat'[c].resp.data.search_summary =
                   [ from |-> "scoping",
                     text |-> chat'[c].scoping_msg.agent_message ]
             /\ chat'[c].resp.data.properties = << >>
             /\ chat'[c].resp.data.total_found = 0
      ]_vars

\* a call has returned the clarification prompt of an incomplete search
C16_Witness ==
    \E c \in ChatIds :
        /\ Done(c)
        /\ chat[c].scoping_msg # NoScoping
        /\ Incomplete(chat[c].scoping_msg)
        /\ chat[c].resp.status = "success"
        /\ chat[c].resp.data.search_summary = [ from |-> "scoping", text |-> c ]

(***************************************************************************)
(* C17.  Handling a geocoding reply without an error whose session_id      *)
(* decodes to session s and index i appends i's coordinate to s's geocoded *)
(* results, adds one to s's geocoding counter, and sends exactly one       *)
(* LocalDiscoveryRequest: for session s, listing index i, with the reply's *)
(* latitude and longitude.                                                 *)
(***************************************************************************)
C17_SuccessRecordsCountsFansOut ==
    [][ \A msg \in mapboxReplies :
          LET d == DecodeToken(msg.session_id)
          IN  (msg \notin mapboxReplies' /\ ~msg.error /\ d.composite /\ ~d.raised)
              => /\ Len(GeoList(sessions', d.base)) =
                       Len(GeoList(sessions, d.base)) + 1
                 /\ SubSeq(GeoList(sessions', d.base), 1,
                           Len(GeoList(sessions, d.base))) = GeoList(sessions, d.base)
                 /\ LET last == GeoList(sessions', d.base)[Len(GeoList(sessions', d.base))]
                    IN  /\ last.index = d.idx
                        /\ last.latitude = msg.latitude
                        /\ last.longitude = msg.longitude
                 /\ GeoCount(sessions', d.base) = GeoCount(sessions, d.base) + 1
                 /\ sent' \ sent =
                       { Sent("local_discovery", Encode(d.base, d.idx), msg.latitude) }
                 /\ poiReqs' \ poiReqs =
                       { [ session_id |-> d.base, listing_index |-> d.idx,
                           latitude |-> msg.latitude, longitude |-> msg.longitude ] }
                 /\ UNCHANGED << mapboxReqs, researchReqs, generalReqs, scopingReqs >>
      ]_vars

\* the coordinate of the second result is recorded and counted, and its POI
\* request is on its way
C17_Witness ==
    \E sid \in DOMAIN sessions :
        /\ GeoCount(sessions, sid) >= 1
        /\ Matches(GeoList(sessions, sid), "index", 1) # {}
        /\ \E req \in poiReqs :
              /\ req.session_id = sid
              /\ req.listing_index = 1
              /\ req.latitude =
                    FirstMatch(GeoList(sessions, sid), "index", 1).latitude

(***************************************************************************)
(* C18.  Handling a POI reply, whether its list is empty or not, appends   *)
(* the list under its listing index to the session's POI results and adds  *)
(* one to the session's POI counter; and an index gets an entry in the POI *)
(* results only by such a reply, so an index answered with an empty list   *)
(* (an entry with an empty list) differs from one never answered (no       *)
(* entry).                                                                 *)
(***************************************************************************)
C18_EveryPoiReplyRecorded ==
    [][ /\ \A msg \in poiReplies :
             msg \notin poiReplies' =>
                /\ PoiList(sessions', msg.session_id) =
                      Append(PoiList(sessions, msg.session_id),
                             [ listing_index |-> msg.listing_index,
                               pois |-> msg.pois ])
                /\ PoiCount(sessions', msg.session_id) =
                      PoiCount(sessions, msg.session_id) + 1
        /\ \A sid \in DOMAIN sessions' : \A idx \in 0..(BatchSize - 1) :
             ( /\ Matches(PoiList(sessions', sid), "listing_index", idx) # {}
               /\ Matches(PoiList(sessions, sid), "listing_index", idx) = {} )
             => \E msg \in poiReplies :
                   /\ msg \notin poiReplies'
                   /\ msg.session_id = sid
                   /\ msg.listing_index = idx
      ]_vars

\* one index answered with an empty list, recorded and counted, while the
\* POI request of another index is still unanswered and has no entry
C18_Witness ==
    \E sid \in DOMAIN sessions :
        /\ PoiCount(sessions, sid) = 1
        /\ \E p \in 1..Len(PoiList(sessions, sid)) :
              PoiList(sessions, sid)[p].pois = << >>
        /\ \E req \in poiReqs :
              /\ req.session_id = sid
              /\ Matches(PoiList(sessions, sid), "listing_index",
                         req.listing_index) = {}

(***************************************************************************)
(* C19.  In the property-search response of a call that read its own       *)
(* primary result, every enhanced result without a coordinate is the       *)
(* original search result with nothing changed and an empty POI list       *)
(* added.                                                                  *)
(***************************************************************************)
C19_NoCoordinatePassedThrough ==
    \A c \in ChatIds :
        ( /\ Done(c)
          /\ chat[c].resp.status = "success"
          /\ LastSearch(c) )
        => \A p \in 1..Len(Enriched(c)) :
              ~Has(Enriched(c)[p], "latitude")
              => Enriched(c)[p] =
                    Put(chat[c].research_msg.raw_search_results[p], "pois", << >>)

\* the lists a sequence of recorded entries becomes when the same replies
\* are handled in another order (main.py:161, 209 append in arrival order)
Reordered(lst) ==
    { [ p \in 1..Len(lst) |-> lst[f[p]] ] : f \in Permutations(1..Len(lst)) }

(***************************************************************************)
(* C20.  The enhanced results of a property-search response do not depend  *)
(* on the order in which the geocoding and POI replies recorded by the     *)
(* time of the merge were handled: merging the same entries recorded in    *)
(* any other order gives the same results.                                 *)
(***************************************************************************)
C20_OrderIndependent ==
    \A c \in ChatIds :
        ( /\ Done(c)
          /\ chat[c].resp.status = "success"
          /\ LastSearch(c) )
        => \A g \in Reordered(chat[c].geocoded_results) :
           \A q \in Reordered(chat[c].poi_results) :
              \A p \in 1..Len(Enriched(c)) :
                 Enriched(c)[p] =
                    EnhancedResult(chat[c].research_msg.raw_search_results[p],
                                   p - 1, g, q)

(***************************************************************************)
(* The coordinator under a fair scheduler: a call that sleeps in a poll     *)
(* loop (await asyncio.sleep(0.5)) is resumed by the event loop.  The      *)
(* workers stay free to answer late or never.                              *)
(***************************************************************************)
SpecLive == Init /\ [][Next]_vars /\ \A c \in ChatIds : WF_vars(ChatStep(c))

\* the iteration cap of the poll loop a call is in (main.py:250, 266, 287,
\* 301, 312)
PollCap(pc) ==
    CASE pc = "scoping"   -> ScopingPolls
      [] pc = "general"   -> GeneralPolls
      [] pc = "research"  -> ResearchPolls
      [] pc = "geocoding" -> GeocodingPolls
      [] pc = "poi"       -> PoiPolls

\* the wait stages in the order handle_chat runs them
StageRank(pc) ==
    CASE pc = "idle"      -> 0
      [] pc = "scoping"   -> 1
      [] pc = "general"   -> 2
      [] pc = "research"  -> 3
      [] pc = "geocoding" -> 4
      [] pc = "poi"       -> 5
      [] pc = "done"      -> 6

(***************************************************************************)
(* C21.  Every call returns: a call never sleeps more often in a stage     *)
(* than the stage's iteration cap, no step of a call takes it back to an   *)
(* earlier stage or lowers its iteration count within a stage, and every   *)
(* call that was started eventually returns a response, whatever the       *)
(* workers answer and also when they answer nothing.                       *)
(***************************************************************************)
C21_Terminates ==
    /\ [](\A c \in ChatIds :
             chat[c].pc \notin { "idle", "done" }
                => chat[c].i <= PollCap(chat[c].pc))
    /\ [][ \A c \in ChatIds :
             chat'[c] # chat[c] =>
                \/ StageRank(chat'[c].pc) > StageRank(chat[c].pc)
                \/ /\ chat'[c].pc = chat[c].pc
                   /\ chat'[c].i = chat[c].i + 1 ]_vars
    /\ \A c \in ChatIds :
          (chat[c].pc \notin { "idle", "done" })
             ~> (Done(c) /\ chat[c].resp.status \in { "success", "error" })

\* a call has returned although no worker ever answered anything
C21_Witness ==
    \E c \in ChatIds :
        /\ Done(c)
        /\ chat[c].resp.status = "error"
        /\ \E req \in scopingReqs : req.user_message = c
        /\ scopingReplies = {}
        /\ DOMAIN sessions = { chat[c].session_id }
        /\ sessions[chat[c].session_id] = EmptyDict

\* every call made on the session has returned
AllReturned(sid) ==
    /\ \E c \in ChatIds : chat[c].session_id = sid
    /\ \A c \in ChatIds : chat[c].session_id = sid => Done(c)

\* the step is one of the coordinator: a call moves or a reply is handled
CoordinatorStep ==
    \/ chat' # chat
    \/ scopingReplies \ scopingReplies' # {}
    \/ generalReplies \ generalReplies' # {}
    \/ researchReplies \ researchReplies' # {}
    \/ mapboxReplies \ mapboxReplies' # {}
    \/ poiReplies \ poiReplies' # {}

(***************************************************************************)
(* C22.  A reply handled when every call on its session has returned is    *)
(* still written to the session record (the classification, the primary    *)
(* result and the general answer under their keys, a geocoding reply and a *)
(* POI reply in the counters and lists); no step of the coordinator        *)
(* withdraws a request that is on its way to a worker; and no step changes *)
(* anything of a call that has returned, its response included.            *)
(***************************************************************************)
C22_LateReplyStoredAndInert ==
    [][ /\ \A c \in ChatIds : Done(c) => chat'[c] = chat[c]
        /\ CoordinatorStep =>
              /\ scopingReqs \subseteq scopingReqs'
              /\ generalReqs \subseteq generalReqs'
              /\ researchReqs \subseteq researchReqs'
              /\ mapboxReqs \subseteq mapboxReqs'
              /\ poiReqs \subseteq poiReqs'
        /\ \A msg \in scopingReplies :
              (msg \notin scopingReplies' /\ AllReturned(msg.session_id))
              => /\ Has(Entry(sessions', msg.session_id), "scoping")
                 /\ Entry(sessions', msg.session_id)["scoping"] = msg
        /\ \A msg \in generalReplies :
              (msg \notin generalReplies' /\ AllReturned(msg.session_id))
              => /\ Has(Entry(sessions', msg.session_id), "general")
                 /\ Entry(sessions', msg.session_id)["general"] = msg
        /\ \A msg \in researchReplies :
              (msg \notin researchReplies' /\ AllReturned(msg.session_id))
              => /\ Has(Entry(sessions', msg.session_id), "research")
                 /\ Entry(sessions', msg.session_id)["research"] = msg
        /\ \A msg \in mapboxReplies :
              LET d == DecodeToken(msg.session_id)
              IN  (msg \notin mapboxReplies' /\ d.composite /\ ~d.raised
                     /\ AllReturned(d.base))
                  => /\ GeoCount(sessions', d.base) = GeoCount(sessions, d.base) + 1
                     /\ ~msg.error =>
                           Len(GeoList(sessions', d.base)) =
                              Len(GeoList(sessions, d.base)) + 1
        /\ \A msg \in poiReplies :
              (msg \notin poiReplies' /\ AllReturned(msg.session_id))
              => /\ PoiCount(sessions', msg.session_id) =
                       PoiCount(sessions, msg.session_id) + 1
                 /\ Len(PoiList(sessions', msg.session_id)) =
                       Len(PoiList(sessions, msg.session_id)) + 1
      ]_vars

\* the call fell through its general wait and returned; the general answer
\* that came afterwards is in the session record
C22_Witness ==
    \E c \in ChatIds :
        /\ Done(c)
        /\ "general_timeout" \in chat[c].path
        /\ chat[c].resp.status = "success"
        /\ chat[c].resp.data.search_summary.from # "general"
        /\ Has(sessions[chat[c].session_id], "general")

\* the session_id of a message denotes session sid: it is sid itself or a
\* composite id made for sid (main.py:138)
Denotes(token, sid) ==
    \/ token = sid
    \/ \E idx \in 0..(BatchSize - 1) : token = Encode(sid, idx)

\* the step handles a reply whose session_id denotes sid
HandlesReplyFor(sid) ==
    \/ \E msg \in scopingReplies \ scopingReplies' : Denotes(msg.session_id, sid)
    \/ \E msg \in generalReplies \ generalReplies' : Denotes(msg.session_id, sid)
    \/ \E msg \in researchReplies \ researchReplies' : Denotes(msg.session_id, sid)
    \/ \E msg \in mapboxReplies \ mapboxReplies' : Denotes(msg.session_id, sid)
    \/ \E msg \in poiReplies \ poiReplies' : Denotes(msg.session_id, sid)

\* the step is the start of a call on session sid
StartsCallOn(sid) ==
    \E c \in ChatIds : chat[c].pc = "idle" /\ chat'[c].session_id = sid

\* the step creates or changes the record of session sid
RecordChanges(sid) ==
    \/ (sid \in DOMAIN sessions) # (sid \in DOMAIN sessions')
    \/ /\ sid \in DOMAIN sessions
       /\ sid \in DOMAIN sessions'
       /\ sessions'[sid] # sessions[sid]

(***************************************************************************)
(* C23.  A step creates or changes the record of a session only if it      *)
(* starts a call on that session or handles a reply whose session_id       *)
(* denotes that session, itself or as a composite id; the record of every  *)
(* other session stays as it is, and no record is ever removed.            *)
(***************************************************************************)
C23_NoCrossSession ==
    [][ /\ \A sid \in Sessions :
             RecordChanges(sid) => (StartsCallOn(sid) \/ HandlesReplyFor(sid))
        /\ DOMAIN sessions \subseteq DOMAIN sessions'
        /\ DOMAIN sessions' \subseteq Sessions
      ]_vars

\* both sessions have a record, and a geocoding reply made for the session
\* whose id ends in an underscore has been handled while the other session
\* had its own fan-out recorded
C23_Witness ==
    /\ DOMAIN sessions = Sessions
    /\ GeoCount(sessions, <<"a">>) = 1
    /\ Sent("mapbox", Encode(<<"a", "_">>, 0), Tag(2, 0)) \in sent
    /\ \A req \in mapboxReqs : req.session_id # Encode(<<"a", "_">>, 0)
    /\ \A msg \in mapboxReplies : msg.session_id # Encode(<<"a", "_">>, 0)

\* the record handle_research leaves in a session that had none
FreshResearch(msg) ==
    [ k \in { "research", "geocoded_results", "geocoding_count",
              "poi_results", "poi_count" } |->
        CASE k = "research"         -> msg
          [] k = "geocoded_results" -> << >>
          [] k = "geocoding_count"  -> 0
          [] k = "poi_results"      -> << >>
          [] k = "poi_count"        -> 0 ]

StartsWith(lst, old) ==
    /\ Len(old) <= Len(lst)
    /\ \A k \in 1..Len(old) : lst[k] = old[k]

\* every coordinate and POI list recorded for sid is still recorded, unrevised
PerItemKept(sid) ==
    /\ StartsWith(GeoList(sessions', sid), GeoList(sessions, sid))
    /\ StartsWith(PoiList(sessions', sid), PoiList(sessions, sid))

\* this step is handle_research storing a primary result for sid
StoresResearch(sid) ==
    \E msg \in researchReplies \ researchReplies' : msg.session_id = sid

(***************************************************************************)
(* C25, as stated.  No step deletes or revises a coordinate or a POI list  *)
(* recorded for a session, the step that stores a new primary result       *)
(* included.                                                               *)
(***************************************************************************)
C25_StrictlyAdditive ==
    [][ \A sid \in DOMAIN sessions : PerItemKept(sid) ]_vars

(***************************************************************************)
(* C25, amended.  Storing a new primary result empties the session's       *)
(* coordinate and POI lists; every other step keeps each recorded entry    *)
(* unrevised and in place, adding at most new entries after it.            *)
(***************************************************************************)
C25_AdditiveExceptNewResearch ==
    [][ \A sid \in DOMAIN sessions :
          IF StoresResearch(sid)
          THEN /\ GeoList(sessions', sid) = << >>
               /\ PoiList(sessions', sid) = << >>
          ELSE PerItemKept(sid) ]_vars

\* a coordinate of the first request was recorded (its POI request went
\* out), the second request's primary result was stored, and the list holds
\* the second request's coordinate only
C25_Witness ==
    \E sid \in DOMAIN sessions :
       /\ \E x \in sent : /\ x.to = "local_discovery"
                          /\ x.tag.rid = 1
                          /\ DecodeToken(x.session_id).base = sid
       /\ Has(Entry(sessions, sid), "research")
       /\ Entry(sessions, sid)["research"].search_summary = 2
       /\ Len(GeoList(sessions, sid)) = 1
       /\ GeoList(sessions, sid)[1].address.rid = 2

\* call c begins in this step
Begins(c) == chat[c].pc = "idle" /\ chat'[c].pc # "idle"

\* call c takes a step after its beginning
Continues(c) == chat[c].pc # "idle" /\ chat'[c] # chat[c]

(***************************************************************************)
(* C26, as stated.  No step of a call removes or rewrites a field stored   *)
(* in a session's record: a record that exists is the same after the step. *)
(***************************************************************************)
C26_CallOnlyReads ==
    [][ \A c \in ChatIds :
          (Begins(c) \/ Continues(c)) =>
             \A sid \in DOMAIN sessions : sessions'[sid] = sessions[sid] ]_vars

(***************************************************************************)
(* C26, amended.  A call's first step removes the classification and the   *)
(* primary result stored in its session's record (creating an empty record *)
(* if there is none) and leaves every other field and every other record   *)
(* as it was; no later step of the call changes any record.                *)
(***************************************************************************)
C26_CallRemovesScopingAndResearchOnly ==
    [][ \A c \in ChatIds :
          /\ Begins(c) =>
               LET sid == chat'[c].session_id
                   old == Entry(sessions, sid)
               IN  /\ DOMAIN sessions' = DOMAIN sessions \cup {sid}
                   /\ DOMAIN sessions'[sid] = DOMAIN old \ { "scoping", "research" }
                   /\ \A k \in DOMAIN sessions'[sid] : sessions'[sid][k] = old[k]
                   /\ \A x \in DOMAIN sessions \ {sid} : sessions'[x] = sessions[x]
          /\ Continues(c) => sessions' = sessions ]_vars

\* the second call has just begun: the classification and the primary result
\* the first call read are gone from the record, its coordinates are kept
C26_Witness ==
    \E c \in ChatIds :
       /\ c > 1
       /\ chat[c].pc = "scoping" /\ chat[c].i = 0
       /\ Done(c - 1) /\ ReadOwnResearch(c - 1)
       /\ chat[c - 1].session_id = chat[c].session_id
       /\ ~Has(sessions[chat[c].session_id], "scoping")
       /\ ~Has(sessions[chat[c].session_id], "research")
       /\ Len(GeoList(sessions, chat[c].session_id)) >= 1

(***************************************************************************)
(* C27.  Handling a geocoding reply whose id is a plain session id stores  *)
(* the reply under "mapbox" in that session's record, leaves every other   *)
(* field of the record (the coordinate list, the POI list and both         *)
(* counters among them) and every other record as they were, and sends no  *)
(* POI request.                                                            *)
(***************************************************************************)
C27_PlainReplySingleSlot ==
    [][ \A msg \in mapboxReplies \ mapboxReplies' :
          msg.session_id \in Sessions =>
             LET sid == msg.session_id
                 old == Entry(sessions, sid)
             IN  /\ sid \in DOMAIN sessions'
                 /\ DOMAIN sessions'[sid] = DOMAIN old \cup { "mapbox" }
                 /\ sessions'[sid]["mapbox"] = msg
                 /\ \A k \in DOMAIN old \ { "mapbox" } : sessions'[sid][k] = old[k]
                 /\ \A x \in DOMAIN sessions \ {sid} : sessions'[x] = sessions[x]
                 /\ GeoList(sessions', sid) = GeoList(sessions, sid)
                 /\ GeoCount(sessions', sid) = GeoCount(sessions, sid)
                 /\ PoiList(sessions', sid) = PoiList(sessions, sid)
                 /\ PoiCount(sessions', sid) = PoiCount(sessions, sid)
                 /\ poiReqs' = poiReqs
                 /\ sent' = sent ]_vars

\* a successful plain-id reply and a composite reply of the same session were
\* both handled: one coordinate, one geocoding counted, one POI request
C27_Witness ==
    \E sid \in DOMAIN sessions :
       /\ mapboxReplies = {}
       /\ Has(sessions[sid], "mapbox")
       /\ sessions[sid]["mapbox"].session_id = sid
       /\ ~sessions[sid]["mapbox"].error
       /\ Len(GeoList(sessions, sid)) = 1
       /\ GeoCount(sessions, sid) = 1
       /\ Cardinality(poiReqs) = 1

\* the response of call c is a property-search response
SearchResponse(c) ==
    /\ Done(c)
    /\ chat[c].resp.status = "success"
    /\ Has(chat[c].resp.data, "top_result_coordinates")

(***************************************************************************)
(* C28.  In a property-search response top_result_coordinates is present   *)
(* exactly when there is an enhanced result at index 0 and it has a        *)
(* latitude; it then carries that result's latitude, longitude and address *)
(* and its image_url, which is the first entry of result_images for index  *)
(* 0 or None when there is none.  Otherwise it is None.                    *)
(***************************************************************************)
C28_TopCoordinates ==
    \A c \in ChatIds :
        SearchResponse(c) =>
            LET e == Enriched(c)
                top == chat[c].resp.data.top_result_coordinates
                imgs == chat[c].research_msg.result_images
            IN  IF Len(e) > 0 /\ Has(e[1], "latitude")
                THEN /\ Len(top) = 1
                     /\ top[1].latitude = e[1].latitude
                     /\ top[1].longitude = e[1].longitude
                     /\ top[1].address = e[1].address
                     /\ top[1].image_url = Get(e[1], "image_url", NoTag)
                     /\ top[1].image_url =
                           IF Matches(imgs, "index", 0) # {}
                           THEN FirstMatch(imgs, "index", 0).image_url
                           ELSE NoTag
                ELSE top = << >>

\* the pointer carries the coordinate and the image of the first result
C28_Witness ==
    \E c \in ChatIds :
       /\ SearchResponse(c)
       /\ Len(chat[c].resp.data.top_result_coordinates) = 1
       /\ chat[c].resp.data.top_result_coordinates[1].image_url = Tag(c, 0)
       /\ chat[c].resp.data.top_result_coordinates[1].latitude = Tag(c, 0)
       /\ Len(Enriched(c)) = 2

\* call c read its own classification, a general question with its text:
\* handle_scoping sent a GeneralRequest for it (main.py:89-97)
GeneralCall(c) ==
    /\ Done(c)
    /\ ReadOwnScoping(c)
    /\ chat[c].scoping_msg.is_general_question
    /\ chat[c].scoping_msg.general_question # 0

(***************************************************************************)
(* C29.  When two successive calls on one session are both classified as   *)
(* general questions, the summary the second call returns as a general     *)
(* answer is the answer to the GeneralRequest sent for the second call,    *)
(* never the answer stored for the first.                                  *)
(***************************************************************************)
C29_NoStaleGeneralAnswer ==
    \A c, d \in ChatIds :
        ( /\ d < c
          /\ chat[d].session_id = chat[c].session_id
          /\ GeneralCall(d)
          /\ GeneralCall(c)
          /\ chat[c].resp.status = "success"
          /\ chat[c].resp.data.search_summary.from = "general" )
        => /\ chat[c].resp.data.search_summary.text # d
           /\ chat[c].resp.data.search_summary.text = c

\* the request whose primary result is stored for sid (0: none is stored)
StoredSearch(sid) ==
    IF Has(Entry(sessions, sid), "research")
    THEN Entry(sessions, sid)["research"].search_summary
    ELSE 0

(***************************************************************************)
(* C30.  A geocoding or POI reply of an earlier request's fan-out that is  *)
(* handled after a later request's primary result was stored changes       *)
(* neither the counters nor the lists of the session, and every coordinate *)
(* and POI list merged into a property-search response comes from a reply  *)
(* of that request's own fan-out.                                          *)
(***************************************************************************)
C30_OwnFanOutOnly ==
    [][ /\ \A msg \in mapboxReplies \ mapboxReplies' :
             LET d == DecodeToken(msg.session_id)
             IN  ( /\ ~d.raised
                   /\ d.composite
                   /\ msg.address.rid < StoredSearch(d.base) )
                 => /\ GeoCount(sessions', d.base) = GeoCount(sessions, d.base)
                    /\ GeoList(sessions', d.base) = GeoList(sessions, d.base)
        /\ \A msg \in poiReplies \ poiReplies' :
             msg.near.rid < StoredSearch(msg.session_id)
             => /\ PoiCount(sessions', msg.session_id) =
                      PoiCount(sessions, msg.session_id)
                /\ PoiList(sessions', msg.session_id) =
                      PoiList(sessions, msg.session_id)
        /\ \A c \in ChatIds :
             ( /\ chat[c].pc # "done"
               /\ chat'[c].pc = "done"
               /\ chat'[c].resp.status = "success"
               /\ Has(chat'[c].resp.data, "top_result_coordinates")
               /\ chat'[c].research_msg.search_summary = c )
             => LET e == chat'[c].resp.data.raw_search_results
                IN  \A p \in 1..Len(e) :
                      /\ Has(e[p], "latitude") => e[p]["latitude"].rid = c
                      /\ \A q \in 1..Len(e[p]["pois"]) :
                            e[p]["pois"][q].rid = c ]_vars

(***************************************************************************)
(* C31.  When calls on one session are in flight together, the response a  *)
(* call builds from a classification is built from the classification of   *)
(* its own message, never from the one produced for another call's.        *)
(***************************************************************************)
C31_ConcurrentCallsReadOwn ==
    \A c, d \in ChatIds :
        ( /\ c # d
          /\ chat[c].session_id = chat[d].session_id
          /\ Done(c)
          /\ chat[c].scoping_msg # NoScoping )
        => /\ chat[c].scoping_msg.agent_message # d
           /\ chat[c].scoping_msg.agent_message = c

\* every geocoding request sent for sid was answered and its reply handled
GeocodingAnswered(sid) ==
    /\ \A req \in mapboxReqs : DecodeToken(req.session_id).base # sid
    /\ \A msg \in mapboxReplies : DecodeToken(msg.session_id).base # sid

(***************************************************************************)
(* C32.  Once a primary result with n >= 1 candidates is stored and every  *)
(* geocoding request sent for it has been answered, the session's          *)
(* geocoding counter has reached min(5, n), the value the geocoding wait   *)
(* expects, whatever the candidates' titles are.                           *)
(***************************************************************************)
C32_CounterReachesExpected ==
    \A sid \in DOMAIN sessions :
        ( /\ Has(sessions[sid], "research")
          /\ ~sessions[sid]["research"].raw_is_none
          /\ Len(sessions[sid]["research"].raw_search_results) >= 1
          /\ GeocodingAnswered(sid) )
        => GeoCount(sessions, sid) >= ResultsCount(sessions[sid]["research"])

(***************************************************************************)
(* C33.  A call whose classification is a general question, whose general  *)
(* wait ran out with no general answer stored, and whose classification is *)
(* not also a complete property search, returns status "success" with the  *)
(* classifier's agent_message as the summary, no properties and            *)
(* total_found 0.                                                          *)
(***************************************************************************)
C33_GeneralTimeoutFallsBack ==
    \A c \in ChatIds :
        ( /\ "general_timeout" \in chat[c].path
          /\ ~(chat[c].scoping_msg.is_complete /\ chat[c].scoping_msg.requirements # 0) )
        => /\ Done(c)
           /\ chat[c].scoping_msg.is_general_question
           /\ chat[c].resp.status = "success"
           /\ chat[c].resp.data.search_summary =
                 [ from |-> "scoping", text |-> chat[c].scoping_msg.agent_message ]
           /\ chat[c].resp.data.properties = << >>
           /\ chat[c].resp.data.total_found = 0

\* the general agent never answered a general question that is not a search:
\* the call returned the classifier's message
C33_Witness ==
    \E c \in ChatIds :
        /\ Done(c)
        /\ "general_timeout" \in chat[c].path
        /\ chat[c].scoping_msg.is_general_question
        /\ chat[c].scoping_msg.general_question # 0
        /\ ~chat[c].scoping_msg.is_complete
        /\ ~Has(sessions[chat[c].session_id], "general")
        /\ generalReqs # {}
        /\ chat[c].resp.status = "success"
        /\ chat[c].resp.data.search_summary = [ from |-> "scoping", text |-> c ]

(***************************************************************************)
(* C34.  A call's first step removes the classification and the primary    *)
(* result stored for its session and sends exactly one ScopingRequest for  *)
(* its message; and no call ever reads a classification or a primary       *)
(* result produced for an earlier request on its session.                  *)
(***************************************************************************)
C34_EarlierResultsNeverRead ==
    [][ \A c \in ChatIds :
          /\ Begins(c) =>
               /\ ~Has(sessions'[chat'[c].session_id], "scoping")
               /\ ~Has(sessions'[chat'[c].session_id], "research")
               /\ scopingReqs' \ scopingReqs =
                     { [ session_id |-> chat'[c].session_id, user_message |-> c ] }
               /\ chat'[c].i = 0
          /\ \A d \in ChatIds :
               ( d < c /\ chat'[d].session_id = chat'[c].session_id )
               => /\ chat'[c].scoping_msg.agent_message # d
                  /\ chat'[c].research_msg.search_summary # d ]_vars

(***************************************************************************)
(* The negotiation workflow (negotiation_workflow.py).                     *)
(***************************************************************************)
\* polls of the wait for the prober (max_wait 60 s in steps of 0.5 s: 120 in
\* the code)
NegotiatePolls == 2

\* negotiation_workflow.py:111-115; the prober copies address and session_id
ProberRequest(n) == [ address |-> n, session_id |-> n ]

\* prober_agent.py:217-223: the reply carries the request's session_id
ProberResponse(req) ==
    [ address |-> req.address, session_id |-> req.session_id,
      findings |-> << req.address >>, leverage_score |-> req.address ]

\* negotiation_workflow.py:95-118: a uuid4 of its own (the call's id stands
\* for it) and the ProberRequest sent
NegotiateStart(n) ==
    /\ negotiate[n].pc = "idle"
    /\ negotiate' = [ negotiate EXCEPT ![n] =
                        [ @ EXCEPT !.pc = "waiting", !.session_id = n ] ]
    /\ proberReqs' = proberReqs \cup { ProberRequest(n) }
    /\ UNCHANGED << prober_responses, proberReplies, coordVars, tokVars, vapiVars >>

\* a call that returns the stored reply and leaves it in the map
NegotiateStep_KeepsReply(n) ==
    LET call == negotiate[n]
    IN  /\ call.pc = "waiting"
        /\ IF Has(prober_responses, call.session_id)
           THEN /\ negotiate' = [ negotiate EXCEPT ![n] =
                      [ call EXCEPT !.pc = "done", !.outcome = "success",
                           !.prober_result = prober_responses[call.session_id] ] ]
                /\ UNCHANGED prober_responses
           ELSE IF call.waited < NegotiatePolls
           THEN /\ negotiate' = [ negotiate EXCEPT ![n].waited = call.waited + 1 ]
                /\ UNCHANGED prober_responses
           ELSE /\ negotiate' = [ negotiate EXCEPT ![n] =
                      [ call EXCEPT !.pc = "done", !.outcome = "504" ] ]
                /\ UNCHANGED prober_responses
        /\ UNCHANGED << proberReqs, proberReplies, coordVars, tokVars, vapiVars >>

\* negotiation_workflow.py:120-166: one wake-up of the call, run to its next
\* sleep, its HTTPException(504) or its return
NegotiateStep(n) ==
    LET call == negotiate[n]
    IN  /\ call.pc = "waiting"
        /\ IF Has(prober_responses, call.session_id)
           THEN /\ negotiate' = [ negotiate EXCEPT ![n] =
                      [ call EXCEPT !.pc = "done", !.outcome = "success",
                           !.prober_result = prober_responses[call.session_id] ] ]
                /\ prober_responses' = Pop(prober_responses, call.session_id)
           ELSE IF call.waited < NegotiatePolls
           THEN /\ negotiate' = [ negotiate EXCEPT ![n].waited = call.waited + 1 ]
                /\ UNCHANGED prober_responses
           ELSE /\ negotiate' = [ negotiate EXCEPT ![n] =
                      [ call EXCEPT !.pc = "done", !.outcome = "504" ] ]
                /\ UNCHANGED prober_responses
        /\ UNCHANGED << proberReqs, proberReplies, coordVars, tokVars, vapiVars >>

\* prober_agent.py:114-223: one ProberResponse to the sender; a search or an
\* LLM call that raises leaves the request unanswered (it stays in flight)
ProberAgent(req) ==
    /\ req \in proberReqs
    /\ proberReqs' = proberReqs \ {req}
    /\ proberReplies' = proberReplies \cup { ProberResponse(req) }
    /\ UNCHANGED << prober_responses, negotiate, coordVars, tokVars, vapiVars >>

\* negotiation_workflow.py:81-85
HandleProberResponse(msg) ==
    /\ msg \in proberReplies
    /\ proberReplies' = proberReplies \ {msg}
    /\ prober_responses' = Put(prober_responses, msg.session_id, msg)
    /\ UNCHANGED << negotiate, proberReqs, coordVars, tokVars, vapiVars >>

NextNegotiate ==
    \/ \E n \in NegotiateIds : NegotiateStart(n)
    \/ \E n \in NegotiateIds : NegotiateStep(n)
    \/ \E req \in proberReqs : ProberAgent(req)
    \/ \E msg \in proberReplies : HandleProberResponse(msg)

SpecNegotiate == Init /\ [][NextNegotiate]_vars

\* call n ends in this step with the given outcome
Ends(n, outcome) ==
    /\ negotiate[n].pc = "waiting"
    /\ negotiate'[n].pc = "done"
    /\ negotiate'[n].outcome = outcome

(***************************************************************************)
(* C35.  A negotiate_property call that returns success returns the stored *)
(* prober reply whose session_id is the id drawn for that call, and        *)
(* removes that entry, and only that entry, from prober_responses; a call  *)
(* that ends otherwise raises the 504 timeout with its wait budget used    *)
(* up, no reply stored under its id, and no findings.                      *)
(***************************************************************************)
C35_OwnReplyOrTimeout ==
    [][ \A n \in NegotiateIds :
          LET sid == negotiate[n].session_id
          IN  /\ Ends(n, "success") =>
                   /\ Has(prober_responses, sid)
                   /\ negotiate'[n].prober_result = prober_responses[sid]
                   /\ negotiate'[n].prober_result.session_id = sid
                   /\ prober_responses' = Pop(prober_responses, sid)
              /\ Ends(n, "504") =>
                   /\ ~Has(prober_responses, sid)
                   /\ negotiate[n].waited = NegotiatePolls
                   /\ negotiate'[n].prober_result = 0
                   /\ prober_responses' = prober_responses
              /\ ( negotiate[n].pc = "waiting" /\ negotiate'[n].pc = "done" )
                   => negotiate'[n].outcome \in { "success", "504" } ]_vars

\* one call returned its own reply, which is gone from the map, and the other
\* call timed out
C35_Witness ==
    \E n, m \in NegotiateIds :
       /\ n # m
       /\ negotiate[n].pc = "done"
       /\ negotiate[n].outcome = "success"
       /\ negotiate[n].prober_result.session_id = n
       /\ ~Has(prober_responses, n)
       /\ negotiate[m].pc = "done"
       /\ negotiate[m].outcome = "504"

(***************************************************************************)
(* C36.  Once a negotiate_property call has returned or raised and no      *)
(* prober request or reply of it is in flight any more, prober_responses   *)
(* holds no entry under the call's session id.                             *)
(***************************************************************************)
C36_NoEntryAfterCallEnded ==
    \A n \in NegotiateIds :
        ( /\ negotiate[n].pc = "done"
          /\ \A req \in proberReqs : req.session_id # negotiate[n].session_id
          /\ \A msg \in proberReplies : msg.session_id # negotiate[n].session_id )
        => ~Has(prober_responses, negotiate[n].session_id)

(***************************************************************************)
(* C38.  Each step in which the Mapbox agent takes a MapboxRequest puts    *)
(* exactly one MapboxResponse in flight; the reply carries the request's   *)
(* session_id unchanged, and either carries an error with latitude and     *)
(* longitude 0.0 or carries no error and the coordinate found.             *)
(***************************************************************************)
C38_OneReplySameToken ==
    [][ \A req \in mapboxReqs \ mapboxReqs' :
          /\ mapboxReqs' = mapboxReqs \ {req}
          /\ mapboxReplies \subseteq mapboxReplies'
          /\ Cardinality(mapboxReplies' \ mapboxReplies) = 1
          /\ \A m \in mapboxReplies' \ mapboxReplies :
                /\ m.session_id = req.session_id
                /\ m.error \in BOOLEAN
                /\ m.error => m.latitude = NoTag /\ m.longitude = NoTag
                /\ ~m.error => m.latitude # NoTag /\ m.longitude # NoTag
          /\ UNCHANGED << sessions, chat >> ]_vars

\* a failed and a successful geocoding were answered under their own ids
C38_Witness ==
    \E m1, m2 \in mapboxReplies :
       /\ m1.error /\ m1.latitude = NoTag
       /\ ~m2.error /\ m2.latitude # NoTag
       /\ m1.session_id # m2.session_id
       /\ \A m \in { m1, m2 } :
             /\ DecodeToken(m.session_id).composite
             /\ \E x \in sent : x.to = "mapbox" /\ x.session_id = m.session_id

(***************************************************************************)
(* The scoping agent's branches (scoping_agent.py:78-170).                 *)
(***************************************************************************)
\* the fixed agent_message of the two fallback replies (scoping_agent.py:155,
\* 165)
FixedMessage == -1

\* scoping_agent.py:152-159 and 162-170: the LLM query failed, or its output
\* did not parse: a reply that is not complete, with no requirements
ScopingAgentFallback(req) ==
    /\ req \in scopingReqs
    /\ scopingReplies' = scopingReplies \cup
           { [ ScopingResponse(req.session_id, req.user_message, IncompleteClass)
                 EXCEPT !.agent_message = FixedMessage ] }
    /\ scopingReqs' = scopingReqs \ {req}
    /\ UNCHANGED << sessions, chat, generalReqs, generalReplies, researchReqs,
                    researchReplies, mapboxReqs, mapboxReplies, poiReqs,
                    poiReplies, sent, tokVars, negVars, vapiVars >>

\* scoping_agent.py:137-138: the parsed output is complete and has a
\* "requirements" entry that UserRequirements(**...) rejects (no location,
\* null, not a dict): the handler raises before any reply is built
ScopingAgentRaises(req) ==
    /\ req \in scopingReqs
    /\ scopingReqs' = scopingReqs \ {req}
    /\ UNCHANGED << sessions, chat, scopingReplies, generalReqs, generalReplies,
                    researchReqs, researchReplies, mapboxReqs, mapboxReplies,
                    poiReqs, poiReplies, sent, tokVars, negVars, vapiVars >>

\* One request answered by a scoping agent on any of its branches.
NextScoping ==
    \/ ChatStart(1, <<"a">>)
    \/ ChatStep(1)
    \/ \E req \in scopingReqs, cl \in Classes : ScopingAgent(req, cl)
    \/ \E req \in scopingReqs : ScopingAgentFallback(req)
    \/ \E req \in scopingReqs : ScopingAgentRaises(req)
    \/ \E req \in generalReqs : GeneralAgent(req)
    \/ \E msg \in scopingReplies : HandleScoping(msg)
    \/ \E msg \in generalReplies : HandleGeneral(msg)

SpecScoping == Init /\ [][NextScoping]_vars

(***************************************************************************)
(* C39.  Every step in which the scoping agent takes a ScopingRequest puts *)
(* exactly one ScopingResponse with the request's session_id in flight,    *)
(* whichever branch the agent takes.                                       *)
(***************************************************************************)
C39_OneReplyOnEveryBranch ==
    [][ \A req \in scopingReqs \ scopingReqs' :
          /\ scopingReplies \subseteq scopingReplies'
          /\ Cardinality(scopingReplies' \ scopingReplies) = 1
          /\ \A m \in scopingReplies' \ scopingReplies :
                m.session_id = req.session_id ]_vars

(***************************************************************************)
(* The Vapi agent (vapi_agent.py, vapi_client.py).                         *)
(***************************************************************************)
\* VapiRequest messages sent to the agent over the whole run
MaxVapiRequests == 2

VapiRequestIds == 1..MaxVapiRequests

\* vapi_agent.py:21-28; intelligence_ok: msg.intelligence has the keys
\* build_system_prompt reads (vapi_agent.py:44-46)
VapiRequest(r, sid, intelligence_ok) ==
    [ rid |-> r, session_id |-> sid, intelligence_ok |-> intelligence_ok ]

\* vapi_agent.py:31-36; call_id 0 is None
VapiResponse(req, call_id, status) ==
    [ rid |-> req.rid, session_id |-> req.session_id,
      call_id |-> call_id, status |-> status ]

\* vapi_client.py:33-73 and 75-115: one API call and what it returned
ApiCall(op, req, result) == [ op |-> op, rid |-> req.rid, result |-> result ]

\* a VapiRequest reaches the agent
VapiSend(r, sid, intelligence_ok) ==
    /\ \A req \in vapiReqs : req.rid # r
    /\ \A p \in 1..Len(vapiReplies) : vapiReplies[p].rid # r
    /\ vapiReqs' = vapiReqs \cup { VapiRequest(r, sid, intelligence_ok) }
    /\ UNCHANGED << vapi_client, vapiReplies, vapiCalls, coordVars, tokVars,
                    negVars >>

\* the handler that goes on to create_call whatever update_assistant returned
HandleVapiRequest_CallsAnyway(req, updated, call_id) ==
    /\ req \in vapiReqs
    /\ vapiReqs' = vapiReqs \ {req}
    /\ IF ~vapi_client
       THEN /\ vapiReplies' = Append(vapiReplies, VapiResponse(req, 0, "error"))
            /\ UNCHANGED vapiCalls
       ELSE IF ~req.intelligence_ok
       THEN /\ vapiReplies' = Append(vapiReplies, VapiResponse(req, 0, "error"))
            /\ UNCHANGED vapiCalls
       ELSE /\ vapiCalls' = vapiCalls \o
                    << ApiCall("update_assistant", req, updated),
                       ApiCall("create_call", req, call_id) >>
            /\ vapiReplies' = Append(vapiReplies,
                    IF call_id = 0 THEN VapiResponse(req, 0, "error")
                    ELSE VapiResponse(req, call_id, "success"))
    /\ UNCHANGED << vapi_client, coordVars, tokVars, negVars >>

\* vapi_agent.py:164-240.  updated: what update_assistant returns;
\* call_id: what create_call returns (0 is None).  An exception in the try
\* block ends in the same error reply as a failed call.
HandleVapiRequest(req, updated, call_id) ==
    /\ req \in vapiReqs
    /\ vapiReqs' = vapiReqs \ {req}
    /\ IF ~vapi_client
       THEN /\ vapiReplies' = Append(vapiReplies, VapiResponse(req, 0, "error"))
            /\ UNCHANGED vapiCalls
       ELSE IF ~req.intelligence_ok
       THEN /\ vapiReplies' = Append(vapiReplies, VapiResponse(req, 0, "error"))
            /\ UNCHANGED vapiCalls
       ELSE IF ~updated
       THEN /\ vapiCalls' = Append(vapiCalls,
                                   ApiCall("update_assistant", req, FALSE))
            /\ vapiReplies' = Append(vapiReplies, VapiResponse(req, 0, "error"))
       ELSE /\ vapiCalls' = vapiCalls \o
                    << ApiCall("update_assistant", req, TRUE),
                       ApiCall("create_call", req, call_id) >>
            /\ vapiReplies' = Append(vapiReplies,
                    IF call_id = 0 THEN VapiResponse(req, 0, "error")
                    ELSE VapiResponse(req, call_id, "success"))
    /\ UNCHANGED << vapi_client, coordVars, tokVars, negVars >>

\* the agent is created with or without VAPI_API_KEY (vapi_agent.py:153-157)
InitVapi ==
    /\ sessions = EmptyDict
    /\ chat = [ c \in ChatIds |-> IdleChat ]
    /\ scopingReqs = {} /\ scopingReplies = {}
    /\ generalReqs = {} /\ generalReplies = {}
    /\ researchReqs = {} /\ researchReplies = {}
    /\ mapboxReqs = {} /\ mapboxReplies = {}
    /\ poiReqs = {} /\ poiReplies = {}
    /\ sent = {}
    /\ tokIn = << >> /\ idxIn = 0 /\ tokOut = NotDecoded
    /\ WorkflowIdle
    /\ vapi_client \in BOOLEAN
    /\ vapiReqs = {}
    /\ vapiReplies = << >>
    /\ vapiCalls = << >>

NextVapi ==
    \/ \E r \in VapiRequestIds, sid \in Sessions, ok \in BOOLEAN :
          VapiSend(r, sid, ok)
    \/ \E req \in vapiReqs, updated \in BOOLEAN, call_id \in { 0, 1 } :
          HandleVapiRequest(req, updated, call_id)

SpecVapi == InitVapi /\ [][NextVapi]_vars

\* the API calls made in this step
NewCalls == SubSeq(vapiCalls', Len(vapiCalls) + 1, Len(vapiCalls'))

(***************************************************************************)
(* C37.  Every step in which the Vapi agent takes a VapiRequest sends      *)
(* exactly one VapiResponse, with the request's session_id.  create_call   *)
(* is made only right after an update_assistant that returned success; no  *)
(* API call is made when the client is not initialised; and the reply's    *)
(* status is "success" exactly when create_call returned a call id, which  *)
(* the reply then carries.                                                 *)
(***************************************************************************)
C37_OneReplyCallAfterUpdate ==
    [][ \A req \in vapiReqs \ vapiReqs' :
          /\ Len(vapiReplies') = Len(vapiReplies) + 1
          /\ SubSeq(vapiReplies', 1, Len(vapiReplies)) = vapiReplies
          /\ SubSeq(vapiCalls', 1, Len(vapiCalls)) = vapiCalls
          /\ LET m == vapiReplies'[Len(vapiReplies')]
                 created == { p \in 1..Len(NewCalls) :
                                NewCalls[p].op = "create_call" }
             IN  /\ m.session_id = req.session_id
                 /\ m.status \in { "success", "error" }
                 /\ ~vapi_client => NewCalls = << >>
                 /\ \A p \in created :
                       /\ p = 2
                       /\ NewCalls[1].op = "update_assistant"
                       /\ NewCalls[1].result = TRUE
                 /\ Cardinality(created) <= 1
                 /\ m.status = "success" <=>
                       \E p \in created : NewCalls[p].result # 0
                 /\ m.status = "success" =>
                       \E p \in created : NewCalls[p].result = m.call_id
                 /\ m.status = "error" => m.call_id = 0 ]_vars

\* one request ended in a call, another in an error after update_assistant
\* had failed
C37_Witness ==
    /\ vapi_client
    /\ \E p, q \in 1..Len(vapiReplies) :
          /\ vapiReplies[p].status = "success"
          /\ vapiReplies[p].call_id # 0
          /\ vapiReplies[q].status = "error"
    /\ \E p \in 1..Len(vapiCalls) :
          vapiCalls[p].op = "update_assistant" /\ vapiCalls[p].result = FALSE
    /\ \E p \in 1..Len(vapiCalls) : vapiCalls[p].op = "create_call"

====
